---- MODULE Spec2Model ----
(***************************************************************************)
(* Model of the market-enrichment core of polymarket-keeper:               *)
(*   - the deterministic classifiers (category.ts, shortName.ts),          *)
(*   - the batch classification orchestrator enrichMarkets                 *)
(*     (llm/enrichment.ts) with its process-wide enrichmentCache,          *)
(*   - the response parsers of llm/openrouter.ts (exact pass, fuzzy pass   *)
(*     by Levenshtein distance).                                           *)
(* Strings that the code inspects character by character (condition ids,   *)
(* the leading field of a response line) are sequences of character codes; *)
(* strings the code only compares or copies are TLA+ strings.              *)
(***************************************************************************)
EXTENDS Integers, Sequences, FiniteSets, TLC

VARIABLES
    enrichmentCache,     \* module-level Map conditionId -> MarketEnrichmentOutput
    pc,                  \* position of enrichMarkets: idle, partitioned, dispatch, awaiting, returned
    calls,               \* number of enrichMarkets calls started in this process
    markets,             \* argument of the current call
    results,             \* local Map conditionId -> MarketEnrichmentOutput
    errors,              \* local errors[] (its length)
    usedFallback,        \* local flag
    fullyDeterministic,  \* the four local bucket arrays
    needsCategoryOnly,
    needsShortNameOnly,
    needsBoth,
    deterministicData,   \* local Map conditionId -> {shortName, category}
    bucket,              \* LLM bucket being processed: 1 category, 2 shortName, 3 both, 4 none left
    batchIndex,          \* 0-based index of the next batch of that bucket
    llmLog,              \* requests issued by the current call, in order
    hits,                \* cache entries found by the partition loop of the current call
    cacheSource,         \* for each cache key: did its shortName come from the LLM or the classifier
    last,                \* the batch step just taken: kind, batch, results before it, parser output
    inFlight,            \* LLM requests issued and not yet settled
    http,                \* fetchWithRetry of the request awaited: phase, attempt, last outcome
    runLog,              \* when on: how each request of the call ended, and the first run
    cli,                 \* main of the generate script: options, key, position, effects
    submission,          \* submitToAPI: plan, position, counters, calls made
    paging               \* fetchEndingSoonestMarkets: source, cursor, accumulated markets

vars == <<enrichmentCache, pc, calls, markets, results, errors, usedFallback,
          fullyDeterministic, needsCategoryOnly, needsShortNameOnly, needsBoth,
          deterministicData, bucket, batchIndex, llmLog, hits, cacheSource, last,
                   inFlight, http, runLog, cli, submission, paging>>

----------------------------------------------------------------------------
(* Bounds of the model *)

MaxMarkets == 12   \* markets the source lists
MaxList    == 3    \* length of the lists of a process that calls repeatedly
MaxCalls   == 2    \* enrichMarkets calls per process
MaxLines   == 2    \* lines in one LLM response
IdLen      == 6    \* characters of a condition id

(* Program constants *)

LLM_BATCH_SIZE == 10
FUZZY_THRESHOLD == 5

----------------------------------------------------------------------------
(* Maps (JavaScript Map): functions whose domain is the set of keys *)

EmptyMap == [k \in {} |-> 0]

MapSet(m, k, v) == [x \in (DOMAIN m) \cup {k} |-> IF x = k THEN v ELSE m[x]]

MapHas(m, k) == k \in DOMAIN m

SeqToSet(s) == {s[i] : i \in 1..Len(s)}

----------------------------------------------------------------------------
(* Categories *)

VALID_CATEGORIES ==
    {"crypto", "weather", "tech-science", "economy-finance", "geopolitics", "sports", "culture"}

Null == "<null>"

----------------------------------------------------------------------------
(* Market records.  A record carries, besides its identifier and question  *)
(* text, what the classifiers' regular expressions find in it:             *)
(*   keywords : the categories whose keyword set matches the search text   *)
(*              (question, slug, series slug/title, lower-cased),          *)
(*   rules    : the inferShortName patterns (numbered in code order) that  *)
(*              match the question and outcome labels.                     *)

IdOf(i) == [k \in 1..IdLen |-> 64 + i]

\* market i of the source, as first listed ("A") and as listed again after an edit ("B")
Market(v, i) ==
    CASE i = 1 /\ v = "A" ->
           [conditionId |-> IdOf(i), question |-> "Will it rain in NYC?",
            sportsMarketType |-> FALSE, keywords |-> {"weather"}, rules |-> {}]
      [] i = 1 /\ v = "B" ->
           [conditionId |-> IdOf(i), question |-> "Spread: Foo (-3.5)",
            sportsMarketType |-> FALSE, keywords |-> {}, rules |-> {3}]
      [] i = 2 /\ v = "A" ->
           [conditionId |-> IdOf(i), question |-> "Lakers vs. Celtics",
            sportsMarketType |-> TRUE, keywords |-> {"sports"}, rules |-> {4}]
      [] i = 2 /\ v = "B" ->
           [conditionId |-> IdOf(i), question |-> "Will the bitcoin bank fail?",
            sportsMarketType |-> FALSE, keywords |-> {"crypto", "economy-finance"}, rules |-> {}]
      [] i = 3 ->
           [conditionId |-> IdOf(i), question |-> "Will Taylor Swift announce a tour?",
            sportsMarketType |-> FALSE, keywords |-> {}, rules |-> {}]
      [] OTHER ->
           [conditionId |-> IdOf(i), question |-> "Who wins the election film award?",
            sportsMarketType |-> FALSE,
            keywords |-> IF i % 2 = 0 THEN {"geopolitics", "culture"} ELSE {"culture"},
            rules |-> {}]

Versions == {"A", "B"}

AllIds == {IdOf(i) : i \in 1..MaxMarkets}

----------------------------------------------------------------------------
(* Pattern classifier *)

\* variant: the crypto keyword branch returns a keyword that is not a slug of the enum
inferSapienceCategorySlugTypo(market) ==
    IF market.sportsMarketType \/ "sports" \in market.keywords THEN "sports"
    ELSE IF "crypto" \in market.keywords THEN "cryptocurrency"
    ELSE IF "weather" \in market.keywords THEN "weather"
    ELSE IF "tech-science" \in market.keywords THEN "tech-science"
    ELSE IF "economy-finance" \in market.keywords THEN "economy-finance"
    ELSE IF "geopolitics" \in market.keywords THEN "geopolitics"
    ELSE IF "culture" \in market.keywords THEN "culture"
    ELSE "geopolitics"

inferSapienceCategorySlug(market) ==
    IF market.sportsMarketType \/ "sports" \in market.keywords THEN "sports"
    ELSE IF "crypto" \in market.keywords THEN "crypto"
    ELSE IF "weather" \in market.keywords THEN "weather"
    ELSE IF "tech-science" \in market.keywords THEN "tech-science"
    ELSE IF "economy-finance" \in market.keywords THEN "economy-finance"
    ELSE IF "geopolitics" \in market.keywords THEN "geopolitics"
    ELSE IF "culture" \in market.keywords THEN "culture"
    ELSE "geopolitics"

MinOf(S) == CHOOSE x \in S : \A y \in S : x <= y

\* the text a pattern builds: always holds literal characters, so never empty
RuleShortName(k, market) == "rule" \o ToString(k) \o " " \o market.question

inferShortName(market) ==
    IF market.rules = {} THEN Null
    ELSE RuleShortName(MinOf(market.rules), market)

\* variant: the fallback category is always the default
getFallbackEnrichmentDefault(market) ==
    [conditionId |-> market.conditionId,
     category |-> "geopolitics",
     shortName |-> IF inferShortName(market) # Null THEN inferShortName(market)
                   ELSE market.question]

getFallbackEnrichment(market) ==
    LET category == inferSapienceCategorySlug(market)
        shortName == inferShortName(market)
    IN [conditionId |-> market.conditionId,
        category |-> IF category = "unknown" THEN "geopolitics" ELSE category,
        shortName |-> IF shortName # Null THEN shortName ELSE market.question]

----------------------------------------------------------------------------
(* Response reconciler (llm/openrouter.ts) *)

Min3(a, b, c) == IF a <= b /\ a <= c THEN a ELSE IF b <= c THEN b ELSE c

\* one row of the matrix: row[j + 1] is matrix[i][j]; prev is row i - 1
RECURSIVE LevRow(_, _, _, _, _)
LevRow(prev, bch, a, j, row) ==
    IF j > Len(a) THEN row
    ELSE LET cell == IF bch = a[j] THEN prev[j]
                     ELSE Min3(prev[j] + 1, row[j] + 1, prev[j + 1] + 1)
         IN LevRow(prev, bch, a, j + 1, Append(row, cell))

RECURSIVE LevRows(_, _, _, _)
LevRows(prev, a, b, i) ==
    IF i > Len(b) THEN prev
    ELSE LevRows(LevRow(prev, b[i], a, 1, <<i>>), a, b, i + 1)

levenshteinDistance(a, b) ==
    LevRows([j \in 1..(Len(a) + 1) |-> j - 1], a, b, 1)[Len(a) + 1]

\* the loop of findClosestConditionId over validIds from position k on
RECURSIVE ClosestFrom(_, _, _, _, _)
ClosestFrom(id, validIds, k, bestMatch, bestDistance) ==
    IF k > Len(validIds) THEN bestMatch
    ELSE LET distance == levenshteinDistance(id, validIds[k])
         IN IF distance < bestDistance
            THEN ClosestFrom(id, validIds, k + 1, validIds[k], distance)
            ELSE ClosestFrom(id, validIds, k + 1, bestMatch, bestDistance)

NoMatch == <<>>

\* variant: a distance equal to the threshold is accepted
findClosestConditionIdInclusive(id, validIds) ==
    ClosestFrom(id, validIds, 1, NoMatch, FUZZY_THRESHOLD + 1)

\* variant: the nearest id is accepted whatever its distance
findClosestConditionIdNearest(id, validIds) ==
    ClosestFrom(id, validIds, 1, NoMatch, Len(id) + IdLen + 1)

findClosestConditionId(id, validIds) ==
    ClosestFrom(id, validIds, 1, NoMatch, FUZZY_THRESHOLD)

(* A response line is [id |-> the characters before the first comma (the   *)
(* whole line when it has none), rest |-> the comma-separated fields after *)
(* it].  Field texts are taken as already free of surrounding blanks.      *)

Space == 32
Backtick == 96
LessThan == 60
HeaderId == <<105, 100>>

RECURSIVE TrimLeft(_)
TrimLeft(s) == IF s # <<>> /\ Head(s) = Space THEN TrimLeft(Tail(s)) ELSE s

RECURSIVE TrimRight(_)
TrimRight(s) ==
    IF s # <<>> /\ s[Len(s)] = Space THEN TrimRight(SubSeq(s, 1, Len(s) - 1)) ELSE s

Trim(s) == TrimRight(TrimLeft(s))

RECURSIVE JoinComma(_)
JoinComma(fields) ==
    IF fields = <<>> THEN ""
    ELSE IF Len(fields) = 1 THEN fields[1]
    ELSE fields[1] \o "," \o JoinComma(Tail(fields))

IsBlank(line) == Trim(line.id) = <<>> /\ line.rest = <<>>

\* line.startsWith('```') || line.startsWith('id,') || line.startsWith('<')
IsSkipped(line) ==
    \/ Len(line.id) >= 3 /\ SubSeq(line.id, 1, 3) = <<Backtick, Backtick, Backtick>>
    \/ line.id = HeaderId /\ line.rest # <<>>
    \/ line.id # <<>> /\ line.id[1] = LessThan

\* variant: the first malformed line ends the parsing of the response
RECURSIVE ParseLinesAbort(_, _)
ParseLinesAbort(content, arity) ==
    IF content = <<>> THEN <<>>
    ELSE LET line == Head(content)
             others == ParseLinesAbort(Tail(content), arity)
         IN IF IsBlank(line) \/ IsSkipped(line) THEN others
            ELSE IF Len(line.rest) < arity - 1 THEN <<>>
            ELSE IF arity = 2
                 THEN <<[id |-> Trim(line.id), cat |-> JoinComma(line.rest),
                         name |-> JoinComma(line.rest)]>> \o others
                 ELSE <<[id |-> Trim(line.id), cat |-> line.rest[1],
                         name |-> JoinComma(Tail(line.rest))]>> \o others

\* first pass: the parsed lines of a response, for a parser that needs `arity` fields
RECURSIVE ParseLines(_, _)
ParseLines(content, arity) ==
    IF content = <<>> THEN <<>>
    ELSE LET line == Head(content)
             others == ParseLines(Tail(content), arity)
         IN IF IsBlank(line) \/ IsSkipped(line) \/ Len(line.rest) < arity - 1
            THEN others
            ELSE IF arity = 2
                 THEN <<[id |-> Trim(line.id), cat |-> JoinComma(line.rest),
                         name |-> JoinComma(line.rest)]>> \o others
                 ELSE <<[id |-> Trim(line.id), cat |-> line.rest[1],
                         name |-> JoinComma(Tail(line.rest))]>> \o others

ValidCategory(cat) == IF cat \in VALID_CATEGORIES THEN cat ELSE "geopolitics"

MarketById(batch, id) == batch[CHOOSE k \in 1..Len(batch) : batch[k].conditionId = id]

\* variant: the parsed name is stored as it is, empty or not
ShortNameOrRaw(name, market) == name

ShortNameOr(name, market) == IF name # "" THEN name ELSE market.question

\* the tuple a parser pushes for a matched id
Tuple(kind, id, parsed, batch) ==
    CASE kind = "category" ->
           [conditionId |-> id, category |-> ValidCategory(parsed.cat)]
      [] kind = "shortName" ->
           [conditionId |-> id, shortName |-> ShortNameOr(parsed.name, MarketById(batch, id))]
      [] OTHER ->
           [conditionId |-> id, category |-> ValidCategory(parsed.cat),
            shortName |-> ShortNameOr(parsed.name, MarketById(batch, id))]

\* variant: a line with a category outside the enum is dropped
RECURSIVE ExactPassStrict(_, _, _, _)
ExactPassStrict(kind, parsedLines, batch, validIds) ==
    IF parsedLines = <<>> THEN <<>>
    ELSE LET p == Head(parsedLines)
             others == ExactPassStrict(kind, Tail(parsedLines), batch, validIds)
         IN IF p.id \in SeqToSet(validIds) /\ (kind = "shortName" \/ p.cat \in VALID_CATEGORIES)
            THEN <<Tuple(kind, p.id, p, batch)>> \o others
            ELSE others

\* second pass: exact ids
RECURSIVE ExactPass(_, _, _, _)
ExactPass(kind, parsedLines, batch, validIds) ==
    IF parsedLines = <<>> THEN <<>>
    ELSE LET p == Head(parsedLines)
             others == ExactPass(kind, Tail(parsedLines), batch, validIds)
         IN IF p.id \in SeqToSet(validIds)
            THEN <<Tuple(kind, p.id, p, batch)>> \o others
            ELSE others

\* third pass: fuzzy ids; missingMarketIds is computed once, foundIds grows
RECURSIVE FuzzyPass(_, _, _, _, _)
FuzzyPass(kind, unmatched, batch, missingMarketIds, foundIds) ==
    IF unmatched = <<>> THEN <<>>
    ELSE LET p == Head(unmatched)
             matchedId == findClosestConditionId(p.id, missingMarketIds)
         IN IF matchedId # NoMatch /\ matchedId \notin foundIds
            THEN <<Tuple(kind, matchedId, p, batch)>>
                 \o FuzzyPass(kind, Tail(unmatched), batch, missingMarketIds,
                              foundIds \cup {matchedId})
            ELSE FuzzyPass(kind, Tail(unmatched), batch, missingMarketIds, foundIds)

ParseResponse(kind, content, batch) ==
    LET validIds == [k \in 1..Len(batch) |-> batch[k].conditionId]
        parsedLines == ParseLines(content, IF kind = "both" THEN 3 ELSE 2)
        exact == ExactPass(kind, parsedLines, batch, validIds)
        foundIds == {exact[k].conditionId : k \in 1..Len(exact)}
        unmatchedIds == SelectSeq(parsedLines, LAMBDA p : p.id \notin SeqToSet(validIds))
        missingMarketIds == SelectSeq(validIds, LAMBDA id : id \notin foundIds)
    IN exact \o FuzzyPass(kind, unmatchedIds, batch, missingMarketIds, foundIds)

parseCategoryResponse(content, batch) == ParseResponse("category", content, batch)

parseShortNameOnlyResponse(content, batch) == ParseResponse("shortName", content, batch)

parseBothResponse(content, batch) == ParseResponse("both", content, batch)

----------------------------------------------------------------------------
(* Batch classification orchestrator (llm/enrichment.ts) *)

\* variant: a record without short name goes to needsBoth whatever its category
BucketOfNoCategoryCheck(shortName, category) ==
    IF shortName # Null /\ category # "unknown" THEN "fullyDeterministic"
    ELSE IF shortName # Null THEN "needsCategoryOnly"
    ELSE "needsBoth"

\* variant: a record with both fields is still sent for a short name
BucketOfAlwaysLLM(shortName, category) ==
    IF shortName # Null /\ category = "unknown" THEN "needsCategoryOnly"
    ELSE IF category # "unknown" THEN "needsShortNameOnly"
    ELSE "needsBoth"

BucketOf(shortName, category) ==
    IF shortName # Null /\ category # "unknown" THEN "fullyDeterministic"
    ELSE IF shortName # Null THEN "needsCategoryOnly"
    ELSE IF category # "unknown" THEN "needsShortNameOnly"
    ELSE "needsBoth"

\* variant: the cached entry is emitted as it is
CacheHitResultCachedOnly(cached, market) == cached

\* the result emitted on a cache hit: the cached entry with deterministic overrides
CacheHitResult(cached, market) ==
    LET shortName == inferShortName(market)
        category == inferSapienceCategorySlug(market)
    IN [conditionId |-> cached.conditionId,
        category |-> IF category # "unknown" THEN category ELSE cached.category,
        shortName |-> IF shortName # Null THEN shortName ELSE cached.shortName]

EmptySplit ==
    [results |-> EmptyMap, hits |-> EmptyMap, deterministicData |-> EmptyMap,
     fullyDeterministic |-> <<>>, needsCategoryOnly |-> <<>>,
     needsShortNameOnly |-> <<>>, needsBoth |-> <<>>]

\* variant: a cached record is skipped without a result
SplitStepNoHit(acc, market) ==
    LET id == market.conditionId
        shortName == inferShortName(market)
        category == inferSapienceCategorySlug(market)
        b == BucketOf(shortName, category)
        data == [shortName |-> shortName, category |-> category]
    IN IF MapHas(enrichmentCache, id)
       THEN acc
       ELSE CASE b = "fullyDeterministic" ->
                   [acc EXCEPT !.deterministicData = MapSet(@, id, data),
                               !.fullyDeterministic = Append(@, market)]
              [] b = "needsCategoryOnly" ->
                   [acc EXCEPT !.deterministicData = MapSet(@, id, data),
                               !.needsCategoryOnly = Append(@, market)]
              [] b = "needsShortNameOnly" ->
                   [acc EXCEPT !.deterministicData = MapSet(@, id, data),
                               !.needsShortNameOnly = Append(@, market)]
              [] OTHER ->
                   [acc EXCEPT !.needsBoth = Append(@, market)]

\* variant: the cache is not consulted
SplitStepIgnoreCache(acc, market) ==
    LET id == market.conditionId
        shortName == inferShortName(market)
        category == inferSapienceCategorySlug(market)
        b == BucketOf(shortName, category)
        data == [shortName |-> shortName, category |-> category]
    IN CASE b = "fullyDeterministic" ->
              [acc EXCEPT !.deterministicData = MapSet(@, id, data),
                          !.fullyDeterministic = Append(@, market)]
         [] b = "needsCategoryOnly" ->
              [acc EXCEPT !.deterministicData = MapSet(@, id, data),
                          !.needsCategoryOnly = Append(@, market)]
         [] b = "needsShortNameOnly" ->
              [acc EXCEPT !.deterministicData = MapSet(@, id, data),
                          !.needsShortNameOnly = Append(@, market)]
         [] OTHER ->
              [acc EXCEPT !.needsBoth = Append(@, market)]

\* one iteration of the partition loop
SplitStep(acc, market) ==
    LET id == market.conditionId
        shortName == inferShortName(market)
        category == inferSapienceCategorySlug(market)
        b == BucketOf(shortName, category)
        data == [shortName |-> shortName, category |-> category]
    IN IF MapHas(enrichmentCache, id)
       THEN [acc EXCEPT !.results = MapSet(@, id, CacheHitResult(enrichmentCache[id], market)),
                        !.hits = MapSet(@, id, enrichmentCache[id])]
       ELSE CASE b = "fullyDeterministic" ->
                   [acc EXCEPT !.deterministicData = MapSet(@, id, data),
                               !.fullyDeterministic = Append(@, market)]
              [] b = "needsCategoryOnly" ->
                   [acc EXCEPT !.deterministicData = MapSet(@, id, data),
                               !.needsCategoryOnly = Append(@, market)]
              [] b = "needsShortNameOnly" ->
                   [acc EXCEPT !.deterministicData = MapSet(@, id, data),
                               !.needsShortNameOnly = Append(@, market)]
              [] OTHER ->
                   [acc EXCEPT !.needsBoth = Append(@, market)]

RECURSIVE SplitLoop(_, _, _)
SplitLoop(ms, k, acc) ==
    IF k > Len(ms) THEN acc ELSE SplitLoop(ms, k + 1, SplitStep(acc, ms[k]))

NoStep == [kind |-> "none", bucket |-> 0, batch |-> <<>>, before |-> EmptyMap, outputs |-> <<>>]

\* enrichMarkets is entered with the first n markets of the source (listing v)
\* and runs its partition loop; limit bounds the calls of one process
Call(limit, v, n) ==
    /\ pc \in {"idle", "returned"}
    /\ calls < limit
    /\ LET ms == [k \in 1..n |-> Market(v, k)]
           split == SplitLoop(ms, 1, EmptySplit)
       IN /\ markets' = ms
          /\ results' = split.results
          /\ hits' = split.hits
          /\ deterministicData' = split.deterministicData
          /\ fullyDeterministic' = split.fullyDeterministic
          /\ needsCategoryOnly' = split.needsCategoryOnly
          /\ needsShortNameOnly' = split.needsShortNameOnly
          /\ needsBoth' = split.needsBoth
    /\ calls' = calls + 1
    /\ errors' = 0
    /\ usedFallback' = FALSE
    /\ bucket' = 0
    /\ batchIndex' = 0
    /\ llmLog' = <<>>
    /\ last' = NoStep
    /\ pc' = "partitioned"
    /\ UNCHANGED <<enrichmentCache, cacheSource, inFlight, http, cli, submission, paging>>
    /\ runLog' = [runLog EXCEPT !.answers = EmptyMap]

BucketMarkets(b) ==
    CASE b = 1 -> needsCategoryOnly
      [] b = 2 -> needsShortNameOnly
      [] b = 3 -> needsBoth
      [] OTHER -> <<>>

NumBatches(list) == (Len(list) + LLM_BATCH_SIZE - 1) \div LLM_BATCH_SIZE

\* variant: list.slice(i, i + LLM_BATCH_SIZE + 1)
BatchAtOverlap(list, index) ==
    SubSeq(list, index * LLM_BATCH_SIZE + 1,
           IF (index + 1) * LLM_BATCH_SIZE + 1 < Len(list)
           THEN (index + 1) * LLM_BATCH_SIZE + 1 ELSE Len(list))

\* batches.push(list.slice(i, i + LLM_BATCH_SIZE)) for i = index * LLM_BATCH_SIZE
BatchAt(list, index) ==
    SubSeq(list, index * LLM_BATCH_SIZE + 1,
           IF (index + 1) * LLM_BATCH_SIZE < Len(list)
           THEN (index + 1) * LLM_BATCH_SIZE ELSE Len(list))

\* the first bucket from b on that has markets; 4 when none has
RECURSIVE FirstBucketFrom(_)
FirstBucketFrom(b) ==
    IF b > 3 THEN 4
    ELSE IF Len(BucketMarkets(b)) > 0 THEN b
    ELSE FirstBucketFrom(b + 1)

\* the loop over fullyDeterministic, then on to the first LLM bucket
RECURSIVE DeterministicLoop(_, _, _)
DeterministicLoop(list, k, acc) ==
    IF k > Len(list) THEN acc
    ELSE LET market == list[k]
             data == deterministicData[market.conditionId]
             enriched == [conditionId |-> market.conditionId,
                          category |-> data.category,
                          shortName |-> data.shortName]
         IN DeterministicLoop(list, k + 1,
                [results |-> MapSet(acc.results, market.conditionId, enriched),
                 cache |-> MapSet(acc.cache, market.conditionId, enriched),
                 source |-> MapSet(acc.source, market.conditionId, "classifier")])

ProcessFullyDeterministic ==
    /\ pc = "partitioned"
    /\ LET done == DeterministicLoop(fullyDeterministic, 1,
                       [results |-> results, cache |-> enrichmentCache, source |-> cacheSource])
       IN /\ results' = done.results
          /\ enrichmentCache' = done.cache
          /\ cacheSource' = done.source
    /\ bucket' = FirstBucketFrom(1)
    /\ batchIndex' = 0
    /\ pc' = "dispatch"
    /\ UNCHANGED <<calls, markets, errors, usedFallback, fullyDeterministic,
                   needsCategoryOnly, needsShortNameOnly, needsBoth,
                   deterministicData, llmLog, hits, last, inFlight, http, runLog, cli, submission, paging>>

KindOf(b) == CASE b = 1 -> "category" [] b = 2 -> "shortName" [] OTHER -> "both"

\* the parser the call of bucket b ends with
ParserOf(b, content, batch) ==
    CASE b = 1 -> parseCategoryResponse(content, batch)
      [] b = 2 -> parseShortNameOnlyResponse(content, batch)
      [] OTHER -> parseBothResponse(content, batch)

\* the record stored for a parsed output of bucket b
Enriched(b, output) ==
    CASE b = 1 -> [conditionId |-> output.conditionId,
                   category |-> output.category,
                   shortName |-> deterministicData[output.conditionId].shortName]
      [] b = 2 -> [conditionId |-> output.conditionId,
                   category |-> deterministicData[output.conditionId].category,
                   shortName |-> output.shortName]
      [] OTHER -> output

\* variant: the outputs are stored in the result map only
RECURSIVE OutputLoopNoCache(_, _, _, _)
OutputLoopNoCache(b, outputs, k, acc) ==
    IF k > Len(outputs) \/ acc.threw THEN acc
    ELSE LET id == outputs[k].conditionId
         IN IF b # 3 /\ ~MapHas(deterministicData, id)
            THEN [acc EXCEPT !.threw = TRUE]
            ELSE OutputLoopNoCache(b, outputs, k + 1,
                   [results |-> MapSet(acc.results, id, Enriched(b, outputs[k])),
                    cache |-> acc.cache,
                    source |-> acc.source,
                    threw |-> FALSE])

\* for (const output of outputs): results.set, enrichmentCache.set.
\* Reading a field of a missing deterministicData entry throws inside the try.
RECURSIVE OutputLoop(_, _, _, _)
OutputLoop(b, outputs, k, acc) ==
    IF k > Len(outputs) \/ acc.threw THEN acc
    ELSE LET id == outputs[k].conditionId
         IN IF b # 3 /\ ~MapHas(deterministicData, id)
            THEN [acc EXCEPT !.threw = TRUE]
            ELSE OutputLoop(b, outputs, k + 1,
                   [results |-> MapSet(acc.results, id, Enriched(b, outputs[k])),
                    cache |-> MapSet(acc.cache, id, Enriched(b, outputs[k])),
                    source |-> MapSet(acc.source, id, IF b = 1 THEN "classifier" ELSE "llm"),
                    threw |-> FALSE])

\* for (const market of batch) if (!results.has(id)) results.set(id, fallback)
RECURSIVE FallbackLoop(_, _, _)
FallbackLoop(batch, k, acc) ==
    IF k > Len(batch) THEN acc
    ELSE LET id == batch[k].conditionId
         IN IF MapHas(acc.results, id)
            THEN FallbackLoop(batch, k + 1, acc)
            ELSE FallbackLoop(batch, k + 1,
                   [results |-> MapSet(acc.results, id, getFallbackEnrichment(batch[k])),
                    used |-> TRUE])

CurrentBatch == BatchAt(BucketMarkets(bucket), batchIndex)

BatchIds(batch) == [k \in 1..Len(batch) |-> batch[k].conditionId]

\* on to the next batch of the bucket, or to the next bucket that has markets
Advance ==
    IF batchIndex + 1 < NumBatches(BucketMarkets(bucket))
    THEN /\ bucket' = bucket
         /\ batchIndex' = batchIndex + 1
    ELSE /\ bucket' = FirstBucketFrom(bucket + 1)
         /\ batchIndex' = 0

\* variant: the catch block records the error and stores no fallback
CaughtNoFallback(batch, resultsSoFar) ==
    /\ errors' = errors + 1
    /\ results' = resultsSoFar
    /\ usedFallback' = TRUE

\* the catch block of a batch, entered with the results written so far
Caught(batch, resultsSoFar) ==
    /\ errors' = errors + 1
    /\ results' = FallbackLoop(batch, 1, [results |-> resultsSoFar, used |-> FALSE]).results
    /\ usedFallback' = TRUE

CurrentRequest == [bucket |-> bucket, index |-> batchIndex]

(* The log of a process whose runs are compared: what the LLM collaborator  *)
(* did with each request of the current call (a request is its bucket and   *)
(* the ids of its batch), and the list, the results and the log of the      *)
(* first call.                                                              *)

NoRun == [markets |-> <<>>, results |-> EmptyMap, answers |-> EmptyMap]

LogOff == [on |-> FALSE, answers |-> EmptyMap, first |-> NoRun]

Answer(content) == [threw |-> FALSE, content |-> content]

Thrown == [threw |-> TRUE, content |-> <<>>]

RequestKey == [bucket |-> bucket, ids |-> BatchIds(CurrentBatch)]

Logged(outcome) ==
    IF runLog.on THEN [runLog EXCEPT !.answers = MapSet(@, RequestKey, outcome)] ELSE runLog

\* the collaborator treats a request of the first call as it did then
Unchanged(outcome) ==
    MapHas(runLog.first.answers, RequestKey) => runLog.first.answers[RequestKey] = outcome

(* fetchWithRetry as the LLM callers use it: maxRetries = 3.  An attempt    *)
(* ends in a response with a status or in a thrown transport error (the     *)
(* request timeout included).                                               *)

maxRetries == 3

Response(status) == [threw |-> FALSE, status |-> status]
TransportError == [threw |-> TRUE, status |-> 0]

Outcomes == {Response(200), Response(404), Response(500), TransportError}

NoFetch == [phase |-> "none", attempt |-> 0, status |-> 0, threw |-> FALSE]

\* variant: a response with a 5xx status counts as ok
IsOkBelow600(status) == status >= 200 /\ status < 600

\* response.ok
IsOk(status) == status >= 200 /\ status < 300

IsServerError(status) == status >= 500 /\ status < 600

\* variant: every response that is not ok is retried
AttemptRetryNotOk(h, outcome) ==
    IF ~outcome.threw
    THEN IF ~IsOk(outcome.status) /\ h.attempt < maxRetries
         THEN [phase |-> "attempting", attempt |-> h.attempt + 1,
               status |-> outcome.status, threw |-> FALSE]
         ELSE [phase |-> "returned", attempt |-> h.attempt,
               status |-> outcome.status, threw |-> FALSE]
    ELSE IF h.attempt < maxRetries
         THEN [phase |-> "attempting", attempt |-> h.attempt + 1, status |-> 0, threw |-> TRUE]
         ELSE [phase |-> "thrown", attempt |-> h.attempt, status |-> 0, threw |-> TRUE]

\* one iteration of the loop of fetchWithRetry: the attempt ends with `outcome`
Attempt(h, outcome) ==
    IF ~outcome.threw
    THEN IF IsServerError(outcome.status) /\ h.attempt < maxRetries
         THEN [phase |-> "attempting", attempt |-> h.attempt + 1,
               status |-> outcome.status, threw |-> FALSE]
         ELSE [phase |-> "returned", attempt |-> h.attempt,
               status |-> outcome.status, threw |-> FALSE]
    ELSE IF h.attempt < maxRetries
         THEN [phase |-> "attempting", attempt |-> h.attempt + 1, status |-> 0, threw |-> TRUE]
         ELSE [phase |-> "thrown", attempt |-> h.attempt, status |-> 0, threw |-> TRUE]

\* every attempt ended in a 5xx response or a transport error
Exhausted(h) ==
    /\ h.attempt = maxRetries
    /\ \/ h.phase = "thrown"
       \/ h.phase = "returned" /\ IsServerError(h.status)

\* an attempt of the awaited request ends
FetchAttempt(outcome) ==
    /\ pc = "awaiting"
    /\ http.phase = "attempting"
    /\ http' = Attempt(http, outcome)
    /\ UNCHANGED <<enrichmentCache, pc, calls, markets, results, errors, usedFallback,
                   fullyDeterministic, needsCategoryOnly, needsShortNameOnly, needsBoth,
                   deterministicData, bucket, batchIndex, llmLog, hits, cacheSource, last,
                   inFlight, runLog, cli, submission, paging>>

\* variant: the request is issued and the loop goes on without awaiting it
DispatchNoAwait ==
    /\ pc = "dispatch"
    /\ bucket \in 1..3
    /\ inFlight' = inFlight \cup {CurrentRequest}
    /\ llmLog' = Append(llmLog, [bucket |-> bucket, ids |-> BatchIds(CurrentBatch)])
    /\ Advance
    /\ pc' = "dispatch"
    /\ UNCHANGED <<enrichmentCache, cacheSource, calls, markets, results, errors,
                   usedFallback, fullyDeterministic, needsCategoryOnly, needsShortNameOnly,
                   needsBoth, deterministicData, hits, last, http, runLog, cli, submission, paging>>

\* await callOpenRouterFor...(inputs, ...): the request of the current batch is issued
\* and enrichMarkets is suspended until it settles
Dispatch ==
    /\ pc = "dispatch"
    /\ bucket \in 1..3
    /\ inFlight' = inFlight \cup {CurrentRequest}
    /\ llmLog' = Append(llmLog, [bucket |-> bucket, ids |-> BatchIds(CurrentBatch)])
    /\ http' = [phase |-> "attempting", attempt |-> 0, status |-> 0, threw |-> FALSE]
    /\ pc' = "awaiting"
    /\ UNCHANGED <<enrichmentCache, cacheSource, calls, markets, results, errors,
                   usedFallback, fullyDeterministic, needsCategoryOnly, needsShortNameOnly,
                   needsBoth, deterministicData, bucket, batchIndex, hits, last, runLog, cli, submission, paging>>

(* The texts the LLM may answer a batch with: up to MaxLines lines, each    *)
(* naming the first or last id of the batch, the first id with its last    *)
(* character dropped, or an id unlike any other; well-formed, with a bad   *)
(* field, without comma, a code fence or a header.                         *)

FarId == [k \in 1..IdLen |-> 122]

DropLast(id) == SubSeq(id, 1, Len(id) - 1)

GoodRest(b) ==
    CASE b = 1 -> <<"crypto">> [] b = 2 -> <<"LLM name">> [] OTHER -> <<"crypto", "LLM name">>

BadRest(b) ==
    CASE b = 1 -> <<"bogus">> [] b = 2 -> <<"">> [] OTHER -> <<"bogus", "">>

Lines(b, batch) ==
    LET first == batch[1].conditionId
        final == batch[Len(batch)].conditionId
    IN {[id |-> i, rest |-> GoodRest(b)] : i \in {first, final, DropLast(first), FarId}}
       \cup {[id |-> first, rest |-> BadRest(b)],
             [id |-> first, rest |-> <<>>],
             [id |-> <<Backtick, Backtick, Backtick>>, rest |-> <<>>],
             [id |-> HeaderId, rest |-> GoodRest(b)]}

Responses(b, batch) ==
    IF batch = <<>> THEN {} ELSE UNION {[1..n -> Lines(b, batch)] : n \in 0..MaxLines}

(* The texts a parser is tried on alone: the lines above, and lines whose   *)
(* id is FUZZY_THRESHOLD edits from the first id, or as near the last id of *)
(* the batch as the first.                                                 *)

AtThreshold(id) == [k \in 1..Len(id) |-> IF k <= FUZZY_THRESHOLD THEN 122 ELSE id[k]]

Mid(x, y) == SubSeq(x, 1, Len(x) - 3) \o SubSeq(y, Len(y) - 2, Len(y))

\* one field too few for the parser of bucket b
ShortRest(b) == IF b = 3 THEN <<"crypto">> ELSE <<>>

ReconcileLines(b, batch) ==
    LET first == batch[1].conditionId
        final == batch[Len(batch)].conditionId
    IN Lines(b, batch)
       \cup {[id |-> i, rest |-> GoodRest(b)] : i \in {AtThreshold(first), Mid(first, final)}}
       \cup {[id |-> first, rest |-> ShortRest(b)]}

ReconcileResponses(b, batch) ==
    UNION {[1..n -> ReconcileLines(b, batch)] : n \in 0..MaxLines}

\* parse...Response(content, markets) is applied to a response for a batch
Reconcile(b, batch, content) ==
    /\ pc = "idle"
    /\ markets' = batch
    /\ last' = [kind |-> "parsed", bucket |-> b, batch |-> batch, before |-> EmptyMap,
                outputs |-> ParserOf(b, content, batch), content |-> content]
    /\ pc' = "parsed"
    /\ UNCHANGED <<enrichmentCache, calls, results, errors, usedFallback,
                   fullyDeterministic, needsCategoryOnly, needsShortNameOnly, needsBoth,
                   deterministicData, bucket, batchIndex, llmLog, hits, cacheSource,
                   inFlight, http, runLog, cli, submission, paging>>

\* the request of the current batch is answered with text `content`
BatchResponds(content) ==
    /\ pc = "awaiting"
    /\ bucket \in 1..3
    /\ http.phase = "returned"
    /\ IsOk(http.status)
    /\ http' = NoFetch
    /\ runLog' = Logged(Answer(content))
    /\ inFlight' = inFlight \ {CurrentRequest}
    /\ LET batch == CurrentBatch
           outputs == ParserOf(bucket, content, batch)
           applied == OutputLoop(bucket, outputs, 1,
                        [results |-> results, cache |-> enrichmentCache,
                         source |-> cacheSource, threw |-> FALSE])
           filled == FallbackLoop(batch, 1, [results |-> applied.results, used |-> usedFallback])
       IN /\ enrichmentCache' = applied.cache
          /\ cacheSource' = applied.source
          /\ IF applied.threw
             THEN Caught(batch, applied.results)
             ELSE /\ results' = filled.results
                  /\ usedFallback' = filled.used
                  /\ errors' = errors
          /\ last' = [kind |-> IF applied.threw THEN "throw" ELSE "ok", bucket |-> bucket,
                      batch |-> batch, before |-> results, outputs |-> outputs,
                      exhausted |-> FALSE]
    /\ Advance
    /\ pc' = "dispatch"
    /\ UNCHANGED <<calls, markets, fullyDeterministic, needsCategoryOnly,
                   needsShortNameOnly, needsBoth, deterministicData, hits, llmLog, cli, submission, paging>>

\* variant: the error of a batch ends the dispatching of all later batches
BatchThrowsAbort ==
    /\ pc = "awaiting"
    /\ bucket \in 1..3
    /\ http.phase \in {"returned", "thrown"}
    /\ http' = NoFetch
    /\ runLog' = Logged(Thrown)
    /\ inFlight' = inFlight \ {CurrentRequest}
    /\ Caught(CurrentBatch, results)
    /\ last' = [kind |-> "throw", bucket |-> bucket, batch |-> CurrentBatch,
                before |-> results, outputs |-> <<>>, exhausted |-> Exhausted(http)]
    /\ bucket' = 4
    /\ batchIndex' = 0
    /\ pc' = "dispatch"
    /\ UNCHANGED <<enrichmentCache, cacheSource, calls, markets, fullyDeterministic,
                   needsCategoryOnly, needsShortNameOnly, needsBoth, deterministicData, hits,
                   llmLog, cli, submission, paging>>

\* variant: the catch block stores the fallbacks in the cache as well
BatchThrowsCachesFallback ==
    /\ pc = "awaiting"
    /\ bucket \in 1..3
    /\ http.phase \in {"returned", "thrown"}
    /\ http' = NoFetch
    /\ runLog' = Logged(Thrown)
    /\ inFlight' = inFlight \ {CurrentRequest}
    /\ Caught(CurrentBatch, results)
    /\ enrichmentCache' = FallbackLoop(CurrentBatch, 1,
                              [results |-> enrichmentCache, used |-> FALSE]).results
    /\ last' = [kind |-> "throw", bucket |-> bucket, batch |-> CurrentBatch,
                before |-> results, outputs |-> <<>>, exhausted |-> Exhausted(http)]
    /\ Advance
    /\ pc' = "dispatch"
    /\ UNCHANGED <<cacheSource, calls, markets, fullyDeterministic,
                   needsCategoryOnly, needsShortNameOnly, needsBoth, deterministicData, hits,
                   llmLog, cli, submission, paging>>

\* the call of the current batch throws: fetchWithRetry threw, the response is
\* not ok, or its body is no JSON
BatchThrows ==
    /\ pc = "awaiting"
    /\ bucket \in 1..3
    /\ http.phase \in {"returned", "thrown"}
    /\ http' = NoFetch
    /\ runLog' = Logged(Thrown)
    /\ inFlight' = inFlight \ {CurrentRequest}
    /\ Caught(CurrentBatch, results)
    /\ last' = [kind |-> "throw", bucket |-> bucket, batch |-> CurrentBatch,
                before |-> results, outputs |-> <<>>, exhausted |-> Exhausted(http)]
    /\ Advance
    /\ pc' = "dispatch"
    /\ UNCHANGED <<enrichmentCache, cacheSource, calls, markets, fullyDeterministic,
                   needsCategoryOnly, needsShortNameOnly, needsBoth, deterministicData, hits,
                   llmLog, cli, submission, paging>>

\* return { results, errors, usedFallback }
Return ==
    /\ pc = "dispatch"
    /\ bucket = 4
    /\ pc' = "returned"
    /\ UNCHANGED <<enrichmentCache, calls, markets, results, errors, usedFallback,
                   fullyDeterministic, needsCategoryOnly, needsShortNameOnly, needsBoth,
                   deterministicData, bucket, batchIndex, llmLog, hits, cacheSource, last,
                   inFlight, http, cli, submission, paging>>
    /\ runLog' = IF runLog.on /\ calls = 1
                 THEN [runLog EXCEPT !.first = [markets |-> markets, results |-> results,
                                                answers |-> runLog.answers]]
                 ELSE runLog

----------------------------------------------------------------------------
(* Filters and pipelines (generate/pipeline).  A filter is a record: a      *)
(* primitive filter holds its name, a combinator the tag of its class and   *)
(* its sub-filters.  A condition carries the fields the condition filters   *)
(* read, a market group the fields the group filters read.  A stage's       *)
(* statistics hold its three counts.                                        *)

MIN_VOLUME_THRESHOLD == 50000

\* a JavaScript number: an integer of the model, or NaN
Number(v) == [nan |-> FALSE, value |-> v]
NaN == [nan |-> TRUE, value |-> 0]

\* parseFloat(m.volume || '0') for the volume texts of the model
parseFloat(volume) ==
    CASE volume = "" -> Number(0)
      [] volume = "49999" -> Number(49999)
      [] volume = "50000" -> Number(50000)
      [] OTHER -> NaN

\* a comparison with NaN is false
AtLeast(x, y) == ~x.nan /\ x.value >= y

FedQuestion == "Will the Fed cut rates in March?"
BitcoinQuestion == "Will the price of Bitcoin be above $100k on January 28?"
PlainQuestion == "Will Bitcoin hit $200k?"

\* ALWAYS_INCLUDE_PATTERNS.some(pattern => pattern.test(question))
matchesAlwaysIncludePatterns(question) == question \in {FedQuestion, BitcoinQuestion}

NonCryptoConditionFilter == [name |-> "non-crypto"]
AlwaysIncludeConditionFilter == [name |-> "always-include-conditions"]
VolumeThresholdFilter == [name |-> "volume-threshold"]
AlwaysIncludeGroupFilter == [name |-> "always-include-groups"]
SingleMarketGroupFilter == [name |-> "single-market-groups"]
MarketVolumeThresholdFilter == [name |-> "market-volume-threshold"]
AlwaysIncludeMarketFilter == [name |-> "always-include-markets"]
NonCryptoGroupFilter == [name |-> "non-crypto-groups"]
AlwaysIncludeConditionGroupFilter == [name |-> "always-include-condition-groups"]
UnionFilter(filters) == [name |-> "union", filters |-> filters]
IntersectionFilter(filters) == [name |-> "intersection", filters |-> filters]

RECURSIVE apply(_, _)
RECURSIVE Keeps(_, _)

\* variant: a Union keeps an item that all of its sub-filters keep
KeepsUnionOfAll(f, item) ==
    CASE f.name = "non-crypto" -> item.categorySlug # "crypto"
      [] f.name = "always-include-conditions" -> matchesAlwaysIncludePatterns(item.question)
      [] f.name = "volume-threshold" ->
           \E k \in 1..Len(item.markets) :
               AtLeast(parseFloat(item.markets[k].volume), MIN_VOLUME_THRESHOLD)
      [] f.name = "always-include-groups" ->
           \E k \in 1..Len(item.markets) :
               matchesAlwaysIncludePatterns(item.markets[k].question)
      [] f.name = "single-market-groups" -> Len(item.markets) > 1
      [] f.name = "market-volume-threshold" ->
           AtLeast(parseFloat(item.volume), MIN_VOLUME_THRESHOLD)
      [] f.name = "always-include-markets" -> matchesAlwaysIncludePatterns(item.question)
      [] f.name = "non-crypto-groups" -> item.categorySlug # "crypto"
      [] f.name = "always-include-condition-groups" ->
           \E k \in 1..Len(item.conditions) :
               matchesAlwaysIncludePatterns(item.conditions[k].question)
      [] f.name = "union" ->
           \A k \in 1..Len(f.filters) : Len(apply(f.filters[k], <<item>>).kept) > 0
      [] OTHER ->
           \A k \in 1..Len(f.filters) : Len(apply(f.filters[k], <<item>>).kept) > 0

\* the test a filter's apply() makes on one item of its loop
Keeps(f, item) ==
    CASE f.name = "non-crypto" -> item.categorySlug # "crypto"
      [] f.name = "always-include-conditions" -> matchesAlwaysIncludePatterns(item.question)
      [] f.name = "volume-threshold" ->
           \E k \in 1..Len(item.markets) :
               AtLeast(parseFloat(item.markets[k].volume), MIN_VOLUME_THRESHOLD)
      [] f.name = "always-include-groups" ->
           \E k \in 1..Len(item.markets) :
               matchesAlwaysIncludePatterns(item.markets[k].question)
      [] f.name = "single-market-groups" -> Len(item.markets) > 1
      [] f.name = "market-volume-threshold" ->
           AtLeast(parseFloat(item.volume), MIN_VOLUME_THRESHOLD)
      [] f.name = "always-include-markets" -> matchesAlwaysIncludePatterns(item.question)
      [] f.name = "non-crypto-groups" -> item.categorySlug # "crypto"
      [] f.name = "always-include-condition-groups" ->
           \E k \in 1..Len(item.conditions) :
               matchesAlwaysIncludePatterns(item.conditions[k].question)
      [] f.name = "union" ->
           \E k \in 1..Len(f.filters) : Len(apply(f.filters[k], <<item>>).kept) > 0
      [] OTHER ->
           \A k \in 1..Len(f.filters) : Len(apply(f.filters[k], <<item>>).kept) > 0

\* variant: an item that is not kept is pushed to removed only if it is not the last
applyLossy(f, items) ==
    [kept |-> SelectSeq(items, LAMBDA item : Keeps(f, item)),
     removed |-> SelectSeq(SubSeq(items, 1, Len(items) - 1), LAMBDA item : ~Keeps(f, item))]

\* apply(items): every item is pushed to kept or to removed, in order
apply(f, items) ==
    [kept |-> SelectSeq(items, LAMBDA item : Keeps(f, item)),
     removed |-> SelectSeq(items, LAMBDA item : ~Keeps(f, item))]

RECURSIVE RunLoop(_, _, _, _)
RECURSIVE RunLoopRestart(_, _, _, _)
RECURSIVE RunLoopLastRemoved(_, _, _, _)

\* variant: every stage is applied to the pipeline's original input
RunLoopRestart(items, filters, k, acc) ==
    IF k > Len(filters) THEN acc
    ELSE LET result == apply(filters[k], items)
         IN RunLoopRestart(items, filters, k + 1,
                [current |-> result.kept,
                 allRemoved |-> acc.allRemoved \o result.removed,
                 stats |-> Append(acc.stats,
                     [inputCount |-> Len(items),
                      keptCount |-> Len(result.kept),
                      removedCount |-> Len(result.removed)])])

\* variant: the removed list holds only the last stage's removals
RunLoopLastRemoved(items, filters, k, acc) ==
    IF k > Len(filters) THEN acc
    ELSE LET result == apply(filters[k], acc.current)
         IN RunLoopLastRemoved(items, filters, k + 1,
                [current |-> result.kept,
                 allRemoved |-> result.removed,
                 stats |-> Append(acc.stats,
                     [inputCount |-> Len(acc.current),
                      keptCount |-> Len(result.kept),
                      removedCount |-> Len(result.removed)])])

\* the loop of runPipeline from stage k on
RunLoop(items, filters, k, acc) ==
    IF k > Len(filters) THEN acc
    ELSE LET result == apply(filters[k], acc.current)
         IN RunLoop(items, filters, k + 1,
                [current |-> result.kept,
                 allRemoved |-> acc.allRemoved \o result.removed,
                 stats |-> Append(acc.stats,
                     [inputCount |-> Len(acc.current),
                      keptCount |-> Len(result.kept),
                      removedCount |-> Len(result.removed)])])

runPipeline(items, filters) ==
    LET acc == RunLoop(items, filters, 1,
                   [current |-> items, allRemoved |-> <<>>, stats |-> <<>>])
    IN [output |-> acc.current, removed |-> acc.allRemoved, stats |-> acc.stats]

GROUP_FILTERS == <<UnionFilter(<<VolumeThresholdFilter, AlwaysIncludeGroupFilter>>)>>
SINGLE_MARKET_FILTERS == <<SingleMarketGroupFilter>>
UNGROUPED_MARKET_FILTERS == <<UnionFilter(<<MarketVolumeThresholdFilter, AlwaysIncludeMarketFilter>>)>>
API_GROUP_FILTERS == <<UnionFilter(<<NonCryptoGroupFilter, AlwaysIncludeConditionGroupFilter>>)>>

\* variant: the registry holds the category filter alone
API_CONDITION_FILTERS_CategoryOnly == <<NonCryptoConditionFilter>>

API_CONDITION_FILTERS == <<UnionFilter(<<NonCryptoConditionFilter, AlwaysIncludeConditionFilter>>)>>

\* the deprecated predicate: !isCrypto || isAlwaysInclude
shouldIncludeCondition(condition) ==
    LET isCrypto == condition.categorySlug = "crypto"
        isAlwaysInclude == matchesAlwaysIncludePatterns(condition.question)
    IN ~isCrypto \/ isAlwaysInclude

MaxItems == 3
MaxStages == 2

\* sequences over S of length 0..n
SeqsUpTo(S, n) == UNION {[1..k -> S] : k \in 0..n}

Condition(categorySlug, question) ==
    [kind |-> "condition", categorySlug |-> categorySlug, question |-> question]

Conditions ==
    {Condition(c, q) : c \in {"crypto", "geopolitics"}, q \in {FedQuestion, PlainQuestion}}

GroupMarket(question, volume) == [question |-> question, volume |-> volume]

Group(title, groupMarkets) == [kind |-> "group", title |-> title, markets |-> groupMarkets]

Groups ==
    {Group("Fed decision", <<GroupMarket(FedQuestion, "")>>),
     Group("Bitcoin in 2026", <<GroupMarket(PlainQuestion, "49999"), GroupMarket(PlainQuestion, "50000")>>),
     Group("Bitcoin this week", <<GroupMarket(PlainQuestion, "49999"), GroupMarket(PlainQuestion, "abc")>>),
     Group("Election", <<GroupMarket(PlainQuestion, "50000")>>)}

ConditionFilters ==
    {NonCryptoConditionFilter, AlwaysIncludeConditionFilter,
     UnionFilter(<<NonCryptoConditionFilter, AlwaysIncludeConditionFilter>>),
     IntersectionFilter(<<NonCryptoConditionFilter, AlwaysIncludeConditionFilter>>),
     UnionFilter(<<>>), IntersectionFilter(<<>>),
     UnionFilter(<<IntersectionFilter(<<NonCryptoConditionFilter, AlwaysIncludeConditionFilter>>),
                   AlwaysIncludeConditionFilter>>)}

GroupFilters ==
    {VolumeThresholdFilter, AlwaysIncludeGroupFilter, SingleMarketGroupFilter,
     UnionFilter(<<VolumeThresholdFilter, AlwaysIncludeGroupFilter>>),
     IntersectionFilter(<<VolumeThresholdFilter, SingleMarketGroupFilter>>)}

\* one run of runPipeline on a list of conditions or of groups
Pipeline(items, filters) ==
    /\ pc = "idle"
    /\ last' = [kind |-> "pipeline", items |-> items, filters |-> filters,
                result |-> runPipeline(items, filters)]
    /\ pc' = "piped"
    /\ UNCHANGED <<enrichmentCache, calls, markets, results, errors, usedFallback,
                   fullyDeterministic, needsCategoryOnly, needsShortNameOnly, needsBoth,
                   deterministicData, bucket, batchIndex, llmLog, hits, cacheSource,
                   inFlight, http, runLog, cli, submission, paging>>

----------------------------------------------------------------------------
(* Grouping (generate/grouping.ts) *)

MaxGrouped == 2

\* market i of the source with the fields groupMarkets and its filters read;
\* eventTitle = Null stands for a market without events[0].title
GroupingMarket(i, question, volume, eventTitle) ==
    [conditionId |-> IdOf(i), question |-> question, sportsMarketType |-> FALSE,
     keywords |-> IF question = FedQuestion THEN {"economy-finance"} ELSE {"crypto"},
     rules |-> {}, volume |-> volume,
     events |-> IF eventTitle = Null THEN <<>> ELSE <<[title |-> eventTitle]>>]

GroupingMarkets(i) ==
    {GroupingMarket(i, q, v, t) :
        q \in {FedQuestion, PlainQuestion}, v \in {"49999", "50000"},
        t \in {Null, "Fed decision"}}

\* the questions of these markets match none of the match patterns, which
\* leaves the question as it is
transformMatchQuestion(market) == market.question

\* what enrichments.get(id) yields for an identifier the map does not hold:
\* enrichment?.shortName and enrichment?.category are then undefined (falsy, as "")
NoEnrichment == [conditionId |-> Null, category |-> "", shortName |-> ""]

transformToSapienceCondition(market, groupTitle, enrichment) ==
    LET question == transformMatchQuestion(market)
    IN [conditionHash |-> market.conditionId,
        question |-> question,
        shortName |-> IF enrichment.shortName # ""
                      THEN enrichment.shortName ELSE question,
        categorySlug |-> IF enrichment.category # "" THEN enrichment.category
                         ELSE inferSapienceCategorySlug(market),
        groupTitle |-> groupTitle]

HasEventTitle(market) == market.events # <<>> /\ market.events[1].title # ""

\* the enrichment map's entry for a market: none, the pattern fallback, or an LLM answer
EnrichmentOf(market, e) ==
    CASE e = "none" -> NoEnrichment
      [] e = "fallback" -> getFallbackEnrichment(market)
      [] OTHER -> [conditionId |-> market.conditionId, category |-> "economy-finance",
                   shortName |-> "LLM name"]

\* groupMarkets, given the identifiers the API reports as existing and the
\* enrichment map
groupMarkets(ms, existingIds, e) ==
    LET titled == SelectSeq(ms, HasEventTitle)
        allGroups == [k \in 1..Len(titled) |->
                         [kind |-> "group", title |-> titled[k].events[1].title,
                          markets |-> <<titled[k]>>]]
        ungrouped == SelectSeq(ms, LAMBDA m : ~HasEventTitle(m))
        filteredGroups == runPipeline(allGroups, GROUP_FILTERS).output
        filteredUngrouped == runPipeline(ungrouped, UNGROUPED_MARKET_FILTERS).output
        newGroups == SelectSeq(filteredGroups,
                         LAMBDA g : g.markets[1].conditionId \notin existingIds)
        newUngrouped == SelectSeq(filteredUngrouped,
                            LAMBDA m : m.conditionId \notin existingIds)
        ConditionOf(g) == transformToSapienceCondition(g.markets[1], g.title,
                              EnrichmentOf(g.markets[1], e))
    IN [groups |-> [k \in 1..Len(newGroups) |->
                       [title |-> newGroups[k].title,
                        categorySlug |-> ConditionOf(newGroups[k]).categorySlug,
                        conditions |-> <<ConditionOf(newGroups[k])>>]],
        ungroupedConditions |-> [k \in 1..Len(newUngrouped) |->
                       transformToSapienceCondition(newUngrouped[k], Null,
                           EnrichmentOf(newUngrouped[k], e))],
        newGroups |-> newGroups]

\* one run of groupMarkets
GroupMarkets(ms, existingIds, e) ==
    /\ pc = "idle"
    /\ last' = [kind |-> "grouped", markets |-> ms, existingIds |-> existingIds,
                enrichment |-> e, output |-> groupMarkets(ms, existingIds, e)]
    /\ pc' = "grouped"
    /\ UNCHANGED <<enrichmentCache, calls, markets, results, errors, usedFallback,
                   fullyDeterministic, needsCategoryOnly, needsShortNameOnly, needsBoth,
                   deterministicData, bucket, batchIndex, llmLog, hits, cacheSource,
                   inFlight, http, runLog, cli, submission, paging>>

----------------------------------------------------------------------------
(* Submission to the admin API (generate/api.ts) and main of the generate   *)
(* script.                                                                 *)

EnrichVars ==
    <<enrichmentCache, calls, markets, results, errors, usedFallback, fullyDeterministic,
      needsCategoryOnly, needsShortNameOnly, needsBoth, deterministicData, bucket,
      batchIndex, llmLog, hits, cacheSource, last, inFlight, http, runLog>>

SUBMISSION_DELAY_MS == 100

MaxLate == 50

\* variant: the timer resolves at once
delayNone(ms) == {0}

\* the time setTimeout(resolve, ms) takes: ms or more
delay(ms) == {ms, ms + MaxLate}

\* what fetchWithRetry gives a submit function: a response, or a thrown error
SubmitOutcomes ==
    {Response(201), Response(409), Response(400), Response(500), TransportError}

AlreadyExists == "Already exists (skipped)"

\* variant: a 409 response is reported like any other response that is not ok
submitCondition409Fails(outcome) ==
    IF outcome.threw THEN [success |-> FALSE, error |-> "error"]
    ELSE IF IsOk(outcome.status) THEN [success |-> TRUE, error |-> Null]
    ELSE [success |-> FALSE, error |-> "HTTP"]

\* the result of submitCondition; error = Null stands for no error field
submitCondition(outcome) ==
    IF outcome.threw THEN [success |-> FALSE, error |-> "error"]
    ELSE IF IsOk(outcome.status) THEN [success |-> TRUE, error |-> Null]
    ELSE IF outcome.status = 409 THEN [success |-> TRUE, error |-> AlreadyExists]
    ELSE [success |-> FALSE, error |-> "HTTP"]

\* the result of submitConditionGroup
submitConditionGroup(outcome) ==
    IF outcome.threw THEN [success |-> FALSE, error |-> "error"]
    ELSE IF IsOk(outcome.status) THEN [success |-> TRUE, error |-> Null]
    ELSE IF outcome.status = 409 THEN [success |-> TRUE, error |-> AlreadyExists]
    ELSE [success |-> FALSE, error |-> "HTTP"]

SapienceConditionGroup(title, categorySlug, conditions) ==
    [kind |-> "conditionGroup", title |-> title, categorySlug |-> categorySlug,
     conditions |-> conditions]

SapienceOutput(groups, ungroupedConditions) ==
    [groups |-> groups, ungroupedConditions |-> ungroupedConditions]

\* the documents groupMarkets hands to the submission
Documents ==
    {SapienceOutput(<<>>, <<>>),
     SapienceOutput(
         <<SapienceConditionGroup("Election", "geopolitics",
               <<Condition("geopolitics", PlainQuestion), Condition("crypto", PlainQuestion)>>)>>,
         <<Condition("geopolitics", PlainQuestion)>>),
     SapienceOutput(
         <<SapienceConditionGroup("Bitcoin", "crypto", <<Condition("crypto", PlainQuestion)>>),
           SapienceConditionGroup("Fed decision", "crypto", <<Condition("crypto", FedQuestion)>>)>>,
         <<Condition("crypto", PlainQuestion), Condition("crypto", FedQuestion)>>)}

Calls(type, items) == [j \in 1..Len(items) |-> [type |-> type, item |-> items[j]]]

\* the submit calls of the loop over includedGroups from group k on, in order:
\* the group, then its conditions that pass API_CONDITION_FILTERS
RECURSIVE GroupCalls(_, _)
GroupCalls(includedGroups, k) ==
    IF k > Len(includedGroups) THEN <<>>
    ELSE Calls("group", <<includedGroups[k]>>)
         \o Calls("condition",
                  runPipeline(includedGroups[k].conditions, API_CONDITION_FILTERS).output)
         \o GroupCalls(includedGroups, k + 1)

\* the submit calls submitToAPI makes for a document when none stops it
Plan(data) ==
    GroupCalls(runPipeline(data.groups, API_GROUP_FILTERS).output, 1)
    \o Calls("condition", runPipeline(data.ungroupedConditions, API_CONDITION_FILTERS).output)

NoCounts ==
    [groupsCreated |-> 0, groupsSkipped |-> 0, groupsFailed |-> 0,
     conditionsCreated |-> 0, conditionsSkipped |-> 0, conditionsFailed |-> 0]

\* the counting of one result in submitToAPI
Counted(counts, type, result) ==
    IF type = "group"
    THEN IF result.success
         THEN IF result.error # Null
              THEN [counts EXCEPT !.groupsSkipped = @ + 1]
              ELSE [counts EXCEPT !.groupsCreated = @ + 1]
         ELSE [counts EXCEPT !.groupsFailed = @ + 1]
    ELSE IF result.success
         THEN IF result.error # Null
              THEN [counts EXCEPT !.conditionsSkipped = @ + 1]
              ELSE [counts EXCEPT !.conditionsCreated = @ + 1]
         ELSE [counts EXCEPT !.conditionsFailed = @ + 1]

NoSubmission ==
    [phase |-> "none", plan |-> <<>>, k |-> 1, sinceLast |-> 0, log |-> <<>>,
     counts |-> NoCounts]

\* variant: a failed submission ends the loops
AfterDelayStopOnFailure(sub) ==
    IF sub.k + 1 > Len(sub.plan) \/ ~sub.log[Len(sub.log)].result.success
    THEN [sub EXCEPT !.phase = "done", !.k = sub.k + 1]
    ELSE [sub EXCEPT !.phase = "call", !.k = sub.k + 1]

\* after await delay(...): the next iteration, or the end of the loops
AfterDelay(sub) ==
    IF sub.k + 1 > Len(sub.plan)
    THEN [sub EXCEPT !.phase = "done", !.k = sub.k + 1]
    ELSE [sub EXCEPT !.phase = "call", !.k = sub.k + 1]

\* validatePrivateKey: Null stands for undefined
ValidKey == "0123456789abcdef0123456789abcdef0123456789abcdef0123456789abcdef"

RawKeys == {Null, "", "abc123", ValidKey, "0x" \o ValidKey}

\* variant: a key of the wrong form is taken for no key
validatePrivateKeyLenient(rawPrivateKey) ==
    IF rawPrivateKey \in {Null, ""} THEN [threw |-> FALSE, key |-> Null]
    ELSE IF rawPrivateKey = "0x" \o ValidKey THEN [threw |-> FALSE, key |-> rawPrivateKey]
    ELSE IF rawPrivateKey = ValidKey THEN [threw |-> FALSE, key |-> "0x" \o rawPrivateKey]
    ELSE [threw |-> FALSE, key |-> Null]

validatePrivateKey(rawPrivateKey) ==
    IF rawPrivateKey \in {Null, ""} THEN [threw |-> FALSE, key |-> Null]
    ELSE IF rawPrivateKey = "0x" \o ValidKey THEN [threw |-> FALSE, key |-> rawPrivateKey]
    ELSE IF rawPrivateKey = ValidKey THEN [threw |-> FALSE, key |-> "0x" \o rawPrivateKey]
    ELSE [threw |-> TRUE, key |-> Null]

NoCli ==
    [phase |-> "none", dryRun |-> FALSE, help |-> FALSE, rawPrivateKey |-> Null,
     privateKey |-> Null, exitCode |-> 0, fetches |-> 0, grouped |-> FALSE,
     exported |-> FALSE, printed |-> FALSE, data |-> SapienceOutput(<<>>, <<>>)]

\* process.exit(code)
Exit(c, code) == [c EXCEPT !.phase = "exited", !.exitCode = code]

\* main up to the try block: parseArgs, --help, validatePrivateKey
Main(dryRun, help, rawPrivateKey) ==
    /\ pc = "idle"
    /\ pc' = "main"
    /\ LET c == [NoCli EXCEPT !.dryRun = dryRun, !.help = help,
                              !.rawPrivateKey = rawPrivateKey]
           validated == validatePrivateKey(rawPrivateKey)
       IN cli' = IF help THEN Exit(c, 0)
                 ELSE IF validated.threw THEN Exit(c, 1)
                 ELSE [c EXCEPT !.phase = "validated", !.privateKey = validated.key]
    /\ UNCHANGED <<EnrichVars, paging, submission>>

\* await fetchEndingSoonestMarkets(): returns, or throws into the catch of main
FetchMarkets(ok) ==
    /\ cli.phase = "validated"
    /\ cli' = IF ok THEN [cli EXCEPT !.phase = "fetched", !.fetches = @ + 1]
              ELSE Exit([cli EXCEPT !.fetches = @ + 1], 1)
    /\ UNCHANGED <<EnrichVars, paging, pc, submission>>

\* groupMarkets(markets) and exportJSON(sapienceData); a throw of the export goes to
\* the catch of main
GroupAndExport(data, ok) ==
    /\ cli.phase = "fetched"
    /\ cli' = IF ok
              THEN [cli EXCEPT !.phase = "exported", !.grouped = TRUE, !.exported = TRUE,
                               !.data = data]
              ELSE Exit([cli EXCEPT !.grouped = TRUE, !.data = data], 1)
    /\ UNCHANGED <<EnrichVars, paging, pc, submission>>

\* variant: the --dry-run option is not looked at
AfterExportIgnoresDryRun ==
    /\ cli.phase = "exported"
    /\ IF cli.privateKey # Null
       THEN /\ submission' = [NoSubmission EXCEPT !.plan = Plan(cli.data),
                                  !.phase = IF Plan(cli.data) = <<>> THEN "done" ELSE "call"]
            /\ cli' = [cli EXCEPT !.phase = IF Plan(cli.data) = <<>> THEN "returned"
                                                ELSE "submitting"]
       ELSE /\ cli' = [cli EXCEPT !.phase = "returned"]
            /\ UNCHANGED submission
    /\ UNCHANGED <<EnrichVars, paging, pc>>

\* if (options.dryRun) { printDryRun; return }  if (hasAPICredentials ...) submitToAPI
AfterExport ==
    /\ cli.phase = "exported"
    /\ IF cli.dryRun
       THEN /\ cli' = [cli EXCEPT !.phase = "returned", !.printed = TRUE]
            /\ UNCHANGED submission
       ELSE IF cli.privateKey # Null
       THEN /\ submission' = [NoSubmission EXCEPT !.plan = Plan(cli.data),
                                  !.phase = IF Plan(cli.data) = <<>> THEN "done" ELSE "call"]
            /\ cli' = [cli EXCEPT !.phase = IF Plan(cli.data) = <<>> THEN "returned"
                                                ELSE "submitting"]
       ELSE /\ cli' = [cli EXCEPT !.phase = "returned"]
            /\ UNCHANGED submission
    /\ UNCHANGED <<EnrichVars, paging, pc>>

\* await submitConditionGroup(...) or await submitCondition(...), and the counting
Submit(outcome) ==
    /\ submission.phase = "call"
    /\ LET call == submission.plan[submission.k]
           result == IF call.type = "group" THEN submitConditionGroup(outcome)
                     ELSE submitCondition(outcome)
       IN submission' =
              [submission EXCEPT
                  !.phase = "delay",
                  !.counts = Counted(@, call.type, result),
                  !.log = Append(@, [type |-> call.type, item |-> call.item,
                                     outcome |-> outcome, result |-> result,
                                     gap |-> submission.sinceLast]),
                  !.sinceLast = 0]
    /\ UNCHANGED <<EnrichVars, paging, pc, cli>>

\* await delay(SUBMISSION_DELAY_MS)
Delay(d) ==
    /\ submission.phase = "delay"
    /\ submission' = AfterDelay([submission EXCEPT !.sinceLast = @ + d])
    /\ cli' = IF submission'.phase = "done" THEN [cli EXCEPT !.phase = "returned"] ELSE cli
    /\ UNCHANGED <<EnrichVars, paging, pc>>

----------------------------------------------------------------------------
(* The market source loop: fetchEndingSoonestMarkets.                       *)
(* Times are small integers; the cursor's ISO text keeps the millisecond    *)
(* value of the Date it is made from, so the cursor is the time itself.     *)

\* the page size of the loop, scaled down from 500
PAGE_SIZE == 2

MaxSource == 4

MaxPages == MaxSource + 2

\* Date.now() + 1 minute, and Date.now() + 7 days
WindowStart == 1
WindowEnd == 3

EndDates == 0..WindowEnd

\* the markets a source holds: identifiers are unique, several may end together,
\* every other market is binary
Source(n, endDates) ==
    {[conditionId |-> i, endDate |-> endDates[i], outcomes |-> 2 + (i % 2)] : i \in 1..n}

\* order=endDate ascending=true
RECURSIVE Ascending(_)
Ascending(S) ==
    IF S = {} THEN <<>>
    ELSE LET m == CHOOSE x \in S : \A y \in S :
                      \/ x.endDate < y.endDate
                      \/ x.endDate = y.endDate /\ x.conditionId <= y.conditionId
         IN <<m>> \o Ascending(S \ {m})

\* the answer of the source to limit=PAGE_SIZE end_date_min=currentMinEndDate
Page(source, currentMinEndDate) ==
    LET all == Ascending({m \in source : m.endDate >= currentMinEndDate})
    IN SubSeq(all, 1, IF Len(all) < PAGE_SIZE THEN Len(all) ELSE PAGE_SIZE)

\* markets.reduce(... endDate > max ? endDate : max, new Date(0))
RECURSIVE maxEndDateInBatch(_)
maxEndDateInBatch(ms) ==
    IF ms = <<>> THEN 0
    ELSE LET rest == maxEndDateInBatch(Tail(ms))
         IN IF Head(ms).endDate > rest THEN Head(ms).endDate ELSE rest

\* variant: every market in the window is pushed
RECURSIVE AddNewNoDedup(_, _, _, _)
AddNewNoDedup(ms, allMarkets, seenConditionIds, newMarketsCount) ==
    IF ms = <<>>
    THEN [allMarkets |-> allMarkets, seenConditionIds |-> seenConditionIds,
          newMarketsCount |-> newMarketsCount]
    ELSE AddNewNoDedup(Tail(ms), Append(allMarkets, Head(ms)),
                       seenConditionIds \cup {Head(ms).conditionId}, newMarketsCount + 1)

\* the loop over marketsInWindow: push the markets not seen before
RECURSIVE AddNew(_, _, _, _)
AddNew(ms, allMarkets, seenConditionIds, newMarketsCount) ==
    IF ms = <<>>
    THEN [allMarkets |-> allMarkets, seenConditionIds |-> seenConditionIds,
          newMarketsCount |-> newMarketsCount]
    ELSE IF Head(ms).conditionId \notin seenConditionIds
    THEN AddNew(Tail(ms), Append(allMarkets, Head(ms)),
                seenConditionIds \cup {Head(ms).conditionId}, newMarketsCount + 1)
    ELSE AddNew(Tail(ms), allMarkets, seenConditionIds, newMarketsCount)

\* variant: a page that adds nothing does not end the loop
StopNoNewUnchecked(ms, newMarketsCount) ==
    Len(ms) < PAGE_SIZE \/ maxEndDateInBatch(ms) >= WindowEnd

\* the stop conditions of the loop
Stop(ms, newMarketsCount) ==
    Len(ms) < PAGE_SIZE \/ maxEndDateInBatch(ms) >= WindowEnd \/ newMarketsCount = 0

NoPaging ==
    [phase |-> "none", source |-> {}, currentMinEndDate |-> WindowStart, allMarkets |-> <<>>,
     seenConditionIds |-> {}, pageCount |-> 0, markets |-> <<>>, newMarketsCount |-> 0,
     binaryMarkets |-> <<>>]

\* one iteration of while (true)
FetchPage(ok) ==
    /\ paging.phase = "loop"
    /\ paging.pageCount < MaxPages
    /\ LET ms == Page(paging.source, paging.currentMinEndDate)
           marketsInWindow == SelectSeq(ms, LAMBDA m : m.endDate < WindowEnd)
           added == AddNew(marketsInWindow, paging.allMarkets, paging.seenConditionIds, 0)
       IN paging' =
              IF ~ok
              THEN [paging EXCEPT !.phase = "thrown", !.pageCount = @ + 1]
              ELSE IF ms = <<>>
              THEN [paging EXCEPT !.phase = "filter", !.pageCount = @ + 1, !.markets = ms,
                                  !.newMarketsCount = 0]
              ELSE [paging EXCEPT
                       !.pageCount = @ + 1,
                       !.markets = ms,
                       !.allMarkets = added.allMarkets,
                       !.seenConditionIds = added.seenConditionIds,
                       !.newMarketsCount = added.newMarketsCount,
                       !.phase = IF Stop(ms, added.newMarketsCount) THEN "filter" ELSE "loop",
                       !.currentMinEndDate = IF Stop(ms, added.newMarketsCount) THEN @
                                             ELSE maxEndDateInBatch(ms)]
    /\ UNCHANGED <<EnrichVars, pc, cli, submission>>

\* after the loop: keep the binary markets and return
ReturnBinary ==
    /\ paging.phase = "filter"
    /\ paging' = [paging EXCEPT !.phase = "done",
                     !.binaryMarkets = SelectSeq(paging.allMarkets, LAMBDA m : m.outcomes = 2)]
    /\ UNCHANGED <<EnrichVars, pc, cli, submission>>

----------------------------------------------------------------------------

InitState ==
    /\ enrichmentCache = EmptyMap
    /\ cacheSource = EmptyMap
    /\ pc = "idle"
    /\ calls = 0
    /\ markets = <<>>
    /\ results = EmptyMap
    /\ errors = 0
    /\ usedFallback = FALSE
    /\ fullyDeterministic = <<>>
    /\ needsCategoryOnly = <<>>
    /\ needsShortNameOnly = <<>>
    /\ needsBoth = <<>>
    /\ deterministicData = EmptyMap
    /\ bucket = 0
    /\ batchIndex = 0
    /\ llmLog = <<>>
    /\ hits = EmptyMap
    /\ last = NoStep
    /\ inFlight = {}
    /\ http = NoFetch

Init == InitState /\ runLog = LogOff /\ cli = NoCli /\ submission = NoSubmission /\ paging = NoPaging

\* a process that logs its runs
InitRerun ==
    InitState /\ runLog = [LogOff EXCEPT !.on = TRUE] /\ cli = NoCli /\ submission = NoSubmission /\ paging = NoPaging

\* a process that calls enrichMarkets up to MaxCalls times with short lists
Next ==
    \/ \E v \in Versions, n \in 0..MaxList : Call(MaxCalls, v, n)
    \/ ProcessFullyDeterministic
    \/ Dispatch
    \/ \E outcome \in Outcomes : FetchAttempt(outcome)
    \/ \E content \in Responses(bucket, CurrentBatch) : BatchResponds(content)
    \/ BatchThrows
    \/ Return

Spec == Init /\ [][Next]_vars

\* a process that calls enrichMarkets once with a list of a full batch or more
NextBatches ==
    \/ \E v \in Versions, n \in LLM_BATCH_SIZE..MaxMarkets : Call(1, v, n)
    \/ ProcessFullyDeterministic
    \/ Dispatch
    \/ \E outcome \in Outcomes : FetchAttempt(outcome)
    \/ \E content \in Responses(bucket, CurrentBatch) : BatchResponds(content)
    \/ BatchThrows
    \/ Return

SpecBatches == Init /\ [][NextBatches]_vars

\* each of the three parsers applied to one response for a batch of 1..MaxList records
NextReconcile ==
    \E b \in 1..3, v \in Versions, n \in 1..MaxList :
        \E content \in ReconcileResponses(b, [k \in 1..n |-> Market(v, k)]) :
            Reconcile(b, [k \in 1..n |-> Market(v, k)], content)

SpecReconcile == Init /\ [][NextReconcile]_vars

\* a process that runs enrichMarkets on a list of 1..MaxList markets and then, its
\* cache filled by that run, on the same list again, the collaborator treating a
\* request it has seen as it did the first time
NextRerun ==
    \/ /\ pc = "idle"
       /\ \E v \in Versions, n \in 1..MaxList : Call(2, v, n)
    \/ /\ pc = "returned"
       /\ \E v \in Versions, n \in 1..MaxList :
              [k \in 1..n |-> Market(v, k)] = markets /\ Call(2, v, n)
    \/ ProcessFullyDeterministic
    \/ Dispatch
    \/ \E outcome \in Outcomes : FetchAttempt(outcome)
    \/ \E content \in Responses(bucket, CurrentBatch) :
           Unchanged(Answer(content)) /\ BatchResponds(content)
    \/ Unchanged(Thrown) /\ BatchThrows
    \/ Return

SpecRerun == InitRerun /\ [][NextRerun]_vars

\* one run of the generate script
NextGenerate ==
    \/ \E dryRun \in BOOLEAN, help \in BOOLEAN, rawPrivateKey \in RawKeys :
           Main(dryRun, help, rawPrivateKey)
    \/ \E ok \in BOOLEAN : FetchMarkets(ok)
    \/ \E data \in Documents, ok \in BOOLEAN : GroupAndExport(data, ok)
    \/ AfterExport
    \/ \E outcome \in SubmitOutcomes : Submit(outcome)
    \/ \E d \in delay(SUBMISSION_DELAY_MS) : Delay(d)

SpecGenerate == Init /\ [][NextGenerate]_vars

\* one call of fetchEndingSoonestMarkets on a market source
InitFetch ==
    /\ InitState
    /\ runLog = LogOff
    /\ cli = NoCli
    /\ submission = NoSubmission
    /\ \E n \in 0..MaxSource :
           \E endDates \in [1..n -> EndDates] :
               paging = [NoPaging EXCEPT !.phase = "loop", !.source = Source(n, endDates)]

NextFetch ==
    \/ \E ok \in BOOLEAN : FetchPage(ok)
    \/ ReturnBinary

SpecFetch == InitFetch /\ [][NextFetch]_vars

\* every fetch is answered or fails after its retries, and the loop goes on
SpecFetchLive == InitFetch /\ [][NextFetch]_vars /\ WF_vars(NextFetch)

\* one pipeline of up to MaxStages filters run on up to MaxItems conditions or groups,
\* or one run of groupMarkets on up to MaxGrouped markets
NextPipeline ==
    \/ /\ pc = "idle"
       /\ \E items \in SeqsUpTo(Conditions, MaxItems), filters \in SeqsUpTo(ConditionFilters, MaxStages) :
              Pipeline(items, filters)
    \/ /\ pc = "idle"
       /\ \E items \in SeqsUpTo(Groups, MaxItems), filters \in SeqsUpTo(GroupFilters, MaxStages) :
              Pipeline(items, filters)
    \/ /\ pc = "idle"
       /\ \E n \in 1..MaxGrouped :
              \E ms \in {m \in [1..n -> UNION {GroupingMarkets(i) : i \in 1..n}] :
                              \A k \in 1..n : m[k] \in GroupingMarkets(k)},
                 existingIds \in SUBSET {IdOf(i) : i \in 1..n},
                 e \in {"none", "fallback", "llm"} :
                  GroupMarkets(ms, existingIds, e)

SpecPipeline == Init /\ [][NextPipeline]_vars

TypeOK ==
    /\ pc \in {"idle", "partitioned", "dispatch", "awaiting", "returned", "parsed", "piped", "grouped", "main"}
    /\ calls \in 0..MaxCalls
    /\ bucket \in 0..4
    /\ DOMAIN results \subseteq AllIds
    /\ DOMAIN enrichmentCache \subseteq AllIds
    /\ http.phase \in {"none", "attempting", "returned", "thrown"}
    /\ http.attempt \in 0..maxRetries

----------------------------------------------------------------------------
(* Properties *)

InputIds == {markets[k].conditionId : k \in 1..Len(markets)}

InList(list, market) == \E k \in 1..Len(list) : list[k] = market

IdsOf(outputs) == {outputs[k].conditionId : k \in 1..Len(outputs)}

\* the deterministic fallback as the specification words it
StatedFallback(market) ==
    [conditionId |-> market.conditionId,
     category |-> IF inferSapienceCategorySlug(market) = "unknown" THEN "geopolitics"
                  ELSE inferSapienceCategorySlug(market),
     shortName |-> IF inferShortName(market) = Null THEN market.question
                   ELSE inferShortName(market)]

\* C1: when enrichMarkets returns, the result map has exactly one entry for each
\* input identifier, stored under that identifier: nothing dropped, nothing extra.
C1_OneResultPerInput ==
    pc = "returned" =>
        /\ DOMAIN results = InputIds
        /\ \A id \in DOMAIN results : results[id].conditionId = id

C1_Witness ==
    /\ pc = "returned"
    /\ Len(markets) >= 2
    /\ hits # EmptyMap
    /\ llmLog # <<>>

\* C2: after a batch whose LLM call threw, every record of the batch that had no
\* result before holds the deterministic fallback, and the call goes on to return.
C2_ThrowGivesFallback ==
    last.kind = "throw" =>
        /\ pc \in {"dispatch", "awaiting", "returned"}
        /\ \A k \in 1..Len(last.batch) :
             LET market == last.batch[k]
             IN ~MapHas(last.before, market.conditionId) =>
                  /\ MapHas(results, market.conditionId)
                  /\ results[market.conditionId] = StatedFallback(market)

C2_Witness ==
    /\ last.kind = "throw"
    /\ pc = "returned"
    /\ errors > 0
    /\ \E k \in 1..Len(last.batch) :
         /\ ~MapHas(last.before, last.batch[k].conditionId)
         /\ inferSapienceCategorySlug(last.batch[k]) # "geopolitics"

\* C3: a batch that throws leaves the results of all records outside that batch as
\* they were, and every batch of every bucket is still dispatched before the return.
C3_FailureContained ==
    /\ last.kind = "throw" =>
          \A id \in DOMAIN last.before :
              id \notin IdsOf(last.batch) =>
                  MapHas(results, id) /\ results[id] = last.before[id]
    /\ pc = "returned" =>
          Len(llmLog) = NumBatches(needsCategoryOnly) + NumBatches(needsShortNameOnly)
                        + NumBatches(needsBoth)

\* a first batch threw, a later batch of the same bucket was answered, the call returned
C3_Witness ==
    /\ pc = "returned"
    /\ errors > 0
    /\ last.kind = "ok"
    /\ Len(llmLog) >= 2
    /\ \E id \in DOMAIN last.before : id \notin IdsOf(last.batch)

\* C4: after a batch whose call succeeded, every record of the batch that the
\* parser returned no tuple for holds the deterministic fallback in the result map.
C4_MissingGivesFallback ==
    last.kind = "ok" =>
        \A k \in 1..Len(last.batch) :
            LET market == last.batch[k]
            IN market.conditionId \notin IdsOf(last.outputs) =>
                 /\ MapHas(results, market.conditionId)
                 /\ results[market.conditionId] = StatedFallback(market)

C4_Witness ==
    /\ last.kind = "ok"
    /\ \E k \in 1..Len(last.batch) :
         /\ last.batch[k].conditionId \notin IdsOf(last.outputs)
         /\ inferSapienceCategorySlug(last.batch[k]) # "geopolitics"
    /\ \E k \in 1..Len(last.batch) : last.batch[k].conditionId \in IdsOf(last.outputs)

HasName(market) == inferShortName(market) # Null

HasCategory(market) == inferSapienceCategorySlug(market) # "unknown"

Occurrences(list, market) == Cardinality({k \in 1..Len(list) : list[k] = market})

\* C5: after the partition loop every record not served from the cache is in exactly
\* one bucket, once, and which one follows from whether the classifier produced a
\* short name and whether it produced a category.
C5_ExactlyOneBucket ==
    pc # "idle" =>
        \A k \in 1..Len(markets) :
            LET market == markets[k]
            IN ~MapHas(hits, market.conditionId) =>
                 /\ Occurrences(fullyDeterministic, market) + Occurrences(needsCategoryOnly, market)
                      + Occurrences(needsShortNameOnly, market) + Occurrences(needsBoth, market) = 1
                 /\ InList(fullyDeterministic, market) <=> (HasName(market) /\ HasCategory(market))
                 /\ InList(needsCategoryOnly, market) <=> (HasName(market) /\ ~HasCategory(market))
                 /\ InList(needsShortNameOnly, market) <=> (~HasName(market) /\ HasCategory(market))
                 /\ InList(needsBoth, market) <=> (~HasName(market) /\ ~HasCategory(market))

C5_Witness ==
    /\ pc = "partitioned"
    /\ fullyDeterministic # <<>>
    /\ needsShortNameOnly # <<>>
    /\ hits # EmptyMap

\* C6: a record in which no category keyword is found is classified "unknown" and is
\* put in the needs-category bucket, or in needs-both when it has no short name either.
C6_NoKeywordIsUnknown ==
    pc = "partitioned" =>
        \A k \in 1..Len(markets) :
            LET market == markets[k]
            IN (market.keywords = {} /\ ~market.sportsMarketType) =>
                 /\ inferSapienceCategorySlug(market) = "unknown"
                 /\ ~MapHas(hits, market.conditionId) =>
                      IF HasName(market) THEN InList(needsCategoryOnly, market)
                      ELSE InList(needsBoth, market)

AllDeterministicOrCached ==
    \A k \in 1..Len(markets) :
        \/ MapHas(hits, markets[k].conditionId)
        \/ HasName(markets[k]) /\ HasCategory(markets[k])

\* C7: the records of the fully-deterministic bucket have their result before any
\* request and are in no request; a call whose un-cached records all have both
\* deterministic fields issues no LLM request.
C7_DeterministicWithoutLLM ==
    pc \in {"dispatch", "awaiting", "returned"} =>
        /\ \A k \in 1..Len(fullyDeterministic) :
             /\ MapHas(results, fullyDeterministic[k].conditionId)
             /\ \A r \in 1..Len(llmLog) :
                  fullyDeterministic[k].conditionId \notin SeqToSet(llmLog[r].ids)
        /\ AllDeterministicOrCached => llmLog = <<>>

C7_Witness ==
    /\ pc = "returned"
    /\ fullyDeterministic # <<>>
    /\ AllDeterministicOrCached
    /\ llmLog = <<>>

\* C8: every category in the result map is one of the seven enum values.
C8_CategoryInEnum ==
    \A id \in DOMAIN results : results[id].category \in VALID_CATEGORIES

C8_Witness ==
    /\ pc = "returned"
    /\ usedFallback
    /\ hits # EmptyMap
    /\ \E id \in DOMAIN results : results[id].category = "geopolitics"
    /\ \E id \in DOMAIN results : results[id].category # "geopolitics"

C10_CachedShortNameKept ==
    \A id \in DOMAIN hits :
        cacheSource[id] = "llm" => results[id].shortName = hits[id].shortName

\* C10 amended: on a cache hit the result's shortName is the classifier's short name
\* when it produces one for the record, and the cached shortName only otherwise.
C10_DeterministicOverridesCached ==
    \A id \in DOMAIN hits :
        LET market == MarketById(markets, id)
        IN results[id].shortName =
             IF inferShortName(market) # Null THEN inferShortName(market)
             ELSE hits[id].shortName

C10_Witness ==
    \E id \in DOMAIN hits :
        /\ cacheSource[id] = "llm"
        /\ inferShortName(MarketById(markets, id)) # Null
        /\ results[id].shortName # hits[id].shortName

\* the tuple the parser returned last for id (a later set replaces an earlier one)
LastOutputFor(id) ==
    last.outputs[CHOOSE k \in 1..Len(last.outputs) :
                    /\ last.outputs[k].conditionId = id
                    /\ \A j \in (k + 1)..Len(last.outputs) : last.outputs[j].conditionId # id]

\* C11: after a batch whose call succeeded, every id the parser returned a tuple for
\* holds, in the result map and in the cache alike, the record built from that tuple.
C11_ParsedWrittenToBoth ==
    last.kind = "ok" =>
        \A id \in IdsOf(last.outputs) :
            /\ MapHas(results, id)
            /\ MapHas(enrichmentCache, id)
            /\ results[id] = Enriched(last.bucket, LastOutputFor(id))
            /\ enrichmentCache[id] = Enriched(last.bucket, LastOutputFor(id))

C11_Witness ==
    /\ last.kind = "ok"
    /\ pc = "returned"
    /\ \E id \in IdsOf(last.outputs) :
         /\ enrichmentCache[id].shortName = "LLM name"
         /\ results[id] = enrichmentCache[id]
    /\ \E k \in 1..Len(last.batch) : last.batch[k].conditionId \notin IdsOf(last.outputs)

\* an entry of the cache is left as it is by every step
CacheEntriesKept ==
    \A id \in DOMAIN enrichmentCache :
        MapHas(enrichmentCache', id) /\ enrichmentCache'[id] = enrichmentCache[id]

\* the enrichmentCache.set calls of an answered batch, one per returned tuple, each
\* write a key not in the cache and not written by another of them
BatchWritesOnce ==
    (pc = "awaiting" /\ last'.kind = "ok") =>
        \A i \in 1..Len(last'.outputs) :
            /\ ~MapHas(enrichmentCache, last'.outputs[i].conditionId)
            /\ \A j \in 1..Len(last'.outputs) :
                 i # j => last'.outputs[i].conditionId # last'.outputs[j].conditionId

\* C12: the cache is write-once per key: no step changes an entry, and no key is
\* written a second time.
C12_CacheWriteOnce == [][CacheEntriesKept /\ BatchWritesOnce]_vars

\* a call is entered: the ids cached from an LLM answer get their result from the
\* cache and their records enter no bucket
CachedServedFromCache ==
    calls' = calls + 1 =>
        \A k \in 1..Len(markets') :
            LET id == markets'[k].conditionId
            IN (MapHas(enrichmentCache, id) /\ cacheSource[id] = "llm") =>
                 /\ MapHas(hits', id)
                 /\ MapHas(results', id)
                 /\ \A b \in {fullyDeterministic', needsCategoryOnly',
                               needsShortNameOnly', needsBoth'} :
                        id \notin {b[j].conditionId : j \in 1..Len(b)}

\* no request of the call names an id that the call resolved from the cache
CachedNotRequested ==
    \A r \in 1..Len(llmLog') :
        \A id \in SeqToSet(llmLog'[r].ids) : ~MapHas(hits', id)

\* C13: an id cached from a parsed LLM answer is, in every later call of the process,
\* resolved from the cache and named in no LLM request.
C13_CachedNotResent == [][CachedServedFromCache /\ CachedNotRequested]_vars

\* a second call found an LLM-derived entry in the cache and sent requests for others
C13_Witness ==
    /\ pc = "returned"
    /\ calls = 2
    /\ llmLog # <<>>
    /\ \E id \in DOMAIN hits : cacheSource[id] = "llm" /\ MapHas(results, id)

\* C14: at most one LLM request is in flight: while enrichMarkets awaits, the one
\* request in flight is that of the current batch, and whenever it is about to issue
\* a request, or is not processing batches, none is in flight.
C14_OneRequestInFlight ==
    /\ Cardinality(inFlight) <= 1
    /\ pc = "awaiting" => inFlight = {CurrentRequest}
    /\ pc # "awaiting" => inFlight = {}

\* the second batch of a bucket is in flight, the first having settled
C14_Witness ==
    /\ pc = "awaiting"
    /\ batchIndex = 1
    /\ Len(llmLog) = 2
    /\ last.kind \in {"ok", "throw"}
    /\ inFlight = {CurrentRequest}

\* C15: the requests of a call are issued in bucket order: category-only, then
\* shortname-only, then both.
C15_FixedBucketOrder ==
    \A i, j \in 1..Len(llmLog) : i < j => llmLog[i].bucket <= llmLog[j].bucket

\* requests of two different buckets in one call
C15_TwoBuckets ==
    \E i, j \in 1..Len(llmLog) : llmLog[i].bucket # llmLog[j].bucket

\* the places (batch, position) at which record k of list is sent
PlacesOf(list, k) ==
    {pl \in (0..(NumBatches(list) - 1)) \X (1..LLM_BATCH_SIZE) :
        /\ pl[2] <= Len(BatchAt(list, pl[1]))
        /\ BatchAt(list, pl[1])[pl[2]] = list[k]}

\* the batches of list are consecutive slices of 1..LLM_BATCH_SIZE records in which
\* every record of list has exactly one place
SplitInBatches(list) ==
    /\ \A index \in 0..(NumBatches(list) - 1) :
         /\ Len(BatchAt(list, index)) \in 1..LLM_BATCH_SIZE
         /\ \A p \in 1..Len(BatchAt(list, index)) :
              BatchAt(list, index)[p] = list[index * LLM_BATCH_SIZE + p]
    /\ \A k \in 1..Len(list) :
         PlacesOf(list, k) = {<<(k - 1) \div LLM_BATCH_SIZE, ((k - 1) % LLM_BATCH_SIZE) + 1>>}

\* C16: every LLM bucket is split into consecutive, pairwise disjoint batches of at
\* most 10 records that cover it, and when the call returns every record of an LLM
\* bucket has been named in exactly one request.
C16_BatchesPartitionBucket ==
    pc # "idle" =>
        /\ SplitInBatches(needsCategoryOnly)
        /\ SplitInBatches(needsShortNameOnly)
        /\ SplitInBatches(needsBoth)
        /\ pc = "returned" =>
             \A b \in 1..3 : \A k \in 1..Len(BucketMarkets(b)) :
                 Cardinality({r \in 1..Len(llmLog) :
                     /\ llmLog[r].bucket = b
                     /\ BucketMarkets(b)[k].conditionId \in SeqToSet(llmLog[r].ids)}) = 1

\* a bucket of more than 10 records was sent as a batch of 10 and a second batch
C16_Witness ==
    /\ pc = "returned"
    /\ Len(needsShortNameOnly) > LLM_BATCH_SIZE
    /\ Len(llmLog) = 2
    /\ Len(llmLog[1].ids) = LLM_BATCH_SIZE
    /\ Len(llmLog[2].ids) = Len(needsShortNameOnly) - LLM_BATCH_SIZE

----------------------------------------------------------------------------
(* Properties of the parsers, on the response `last.content` just parsed *)

ParsedOfLast == ParseLines(last.content, IF KindOf(last.bucket) = "both" THEN 3 ELSE 2)

ValidIdsOfLast == BatchIds(last.batch)

ExactOfLast == ExactPass(KindOf(last.bucket), ParsedOfLast, last.batch, ValidIdsOfLast)

\* the parsed lines that go to the fuzzy pass, and the ids it starts with
UnmatchedOfLast == SelectSeq(ParsedOfLast, LAMBDA p : p.id \notin SeqToSet(ValidIdsOfLast))

MissingOfLast == SelectSeq(ValidIdsOfLast, LAMBDA id : id \notin IdsOf(ExactOfLast))

\* what the fuzzy pass has returned when it is done with its first k lines
FuzzyUpTo(k) ==
    FuzzyPass(KindOf(last.bucket), SubSeq(UnmatchedOfLast, 1, k), last.batch,
              MissingOfLast, IdsOf(ExactOfLast))

\* the ids still unfound when the fuzzy pass comes to its line k
StillUnfound(k) == SeqToSet(MissingOfLast) \ IdsOf(FuzzyUpTo(k - 1))

\* line k of the fuzzy pass was matched; the id it was matched to
MatchedAt(k) == Len(FuzzyUpTo(k)) = Len(FuzzyUpTo(k - 1)) + 1

MatchOf(k) == FuzzyUpTo(k)[Len(FuzzyUpTo(k))].conditionId

DistanceAt(k, id) == levenshteinDistance(UnmatchedOfLast[k].id, id)

OutputsAreThePasses == last.outputs = ExactOfLast \o FuzzyUpTo(Len(UnmatchedOfLast))

\* C17: the fuzzy pass matches no line that is 5 or more edits away from every id
\* still unfound when the line is processed.
C17_NoMatchAtThreshold ==
    last.kind = "parsed" =>
        /\ OutputsAreThePasses
        /\ \A k \in 1..Len(UnmatchedOfLast) :
             (\A id \in StillUnfound(k) : DistanceAt(k, id) >= FUZZY_THRESHOLD)
                 => ~MatchedAt(k)

\* a line exactly 5 edits from the nearest unfound id was left unmatched, and another
\* line was matched
C17_Witness ==
    /\ last.kind = "parsed"
    /\ \E k \in 1..Len(UnmatchedOfLast) :
         /\ \E id \in StillUnfound(k) : DistanceAt(k, id) = FUZZY_THRESHOLD
         /\ \A id \in StillUnfound(k) : DistanceAt(k, id) >= FUZZY_THRESHOLD
         /\ ~MatchedAt(k)
    /\ \E k \in 1..Len(UnmatchedOfLast) : MatchedAt(k)

\* C18: no id of the batch is in more than one returned tuple.
C18_OneTuplePerId ==
    last.kind = "parsed" =>
        \A i, j \in 1..Len(last.outputs) :
            i # j => last.outputs[i].conditionId # last.outputs[j].conditionId

\* the still-unfound ids less than 5 edits from line k of the fuzzy pass
NearAt(k) == {id \in StillUnfound(k) : DistanceAt(k, id) < FUZZY_THRESHOLD}

\* C19: a line of the fuzzy pass is matched to the closest of the ids still unfound
\* when it is processed, if that one is less than 5 edits away, and to none otherwise.
C19_ClosestStillUnfound ==
    last.kind = "parsed" =>
        \A k \in 1..Len(UnmatchedOfLast) :
            IF NearAt(k) = {} THEN ~MatchedAt(k)
            ELSE /\ MatchedAt(k)
                 /\ MatchOf(k) \in NearAt(k)
                 /\ \A id \in NearAt(k) : DistanceAt(k, MatchOf(k)) <= DistanceAt(k, id)

\* some parsed line names id exactly or within the fuzzy threshold
LineFor(id) ==
    \E k \in 1..Len(ParsedOfLast) :
        \/ ParsedOfLast[k].id = id
        \/ levenshteinDistance(ParsedOfLast[k].id, id) < FUZZY_THRESHOLD

\* C20: every returned tuple carries an id of the batch that some response line names
\* exactly or within the fuzzy threshold; an id no line names so gets no tuple.
C20_NoInventedResult ==
    last.kind = "parsed" =>
        /\ \A k \in 1..Len(last.outputs) :
             /\ last.outputs[k].conditionId \in SeqToSet(ValidIdsOfLast)
             /\ LineFor(last.outputs[k].conditionId)
        /\ \A id \in SeqToSet(ValidIdsOfLast) :
             ~LineFor(id) => id \notin IdsOf(last.outputs)

\* a line was matched fuzzily, a line far from every id was dropped, and an id of
\* the batch that no line names was left without tuple
C20_Witness ==
    /\ last.kind = "parsed"
    /\ \E k \in 1..Len(UnmatchedOfLast) : MatchedAt(k)
    /\ \E k \in 1..Len(UnmatchedOfLast) :
         \A id \in SeqToSet(ValidIdsOfLast) : DistanceAt(k, id) >= FUZZY_THRESHOLD
    /\ \E id \in SeqToSet(ValidIdsOfLast) : ~LineFor(id) /\ id \notin IdsOf(last.outputs)

\* the response with every category outside the enum replaced by a valid one
Repaired(content) ==
    [k \in 1..Len(content) |->
        IF content[k].rest # <<>> /\ content[k].rest[1] \notin VALID_CATEGORIES
        THEN [content[k] EXCEPT !.rest[1] = "weather"]
        ELSE content[k]]

RepairedOutputs == ParserOf(last.bucket, Repaired(last.content), last.batch)

\* C21: a line whose category is outside the enum gives the tuple it would give with a
\* valid category, except that the tuple's category is geopolitics.
C21_BadCategoryCoerced ==
    (last.kind = "parsed" /\ last.bucket \in {1, 3}) =>
        /\ Len(last.outputs) = Len(RepairedOutputs)
        /\ \A k \in 1..Len(last.outputs) :
             /\ last.outputs[k].conditionId = RepairedOutputs[k].conditionId
             /\ last.outputs[k].category =
                  IF RepairedOutputs[k].category = "weather" THEN "geopolitics"
                  ELSE RepairedOutputs[k].category
             /\ last.bucket = 3 => last.outputs[k].shortName = RepairedOutputs[k].shortName

\* a line with category "bogus" gave a tuple with category geopolitics
C21_Witness ==
    /\ last.kind = "parsed"
    /\ last.bucket \in {1, 3}
    /\ \E k \in 1..Len(ParsedOfLast) :
         /\ ParsedOfLast[k].cat = "bogus"
         /\ \E j \in 1..Len(last.outputs) :
              /\ last.outputs[j].conditionId = ParsedOfLast[k].id
              /\ last.outputs[j].category = "geopolitics"
    /\ \E j \in 1..Len(last.outputs) : last.outputs[j].category = "crypto"

\* a line that is neither blank nor a fence or header and has too few fields
Malformed(line) ==
    /\ ~IsBlank(line)
    /\ ~IsSkipped(line)
    /\ Len(line.rest) < (IF KindOf(last.bucket) = "both" THEN 3 ELSE 2) - 1

\* C22: the parser returns for a response what it returns for the response without
\* its malformed lines: such a line is skipped alone.
C22_MalformedLineSkippedAlone ==
    last.kind = "parsed" =>
        last.outputs = ParserOf(last.bucket,
                                SelectSeq(last.content, LAMBDA line : ~Malformed(line)),
                                last.batch)

\* a response with a malformed line before a well-formed one that gave a tuple
C22_Witness ==
    /\ last.kind = "parsed"
    /\ Len(last.content) >= 2
    /\ Malformed(last.content[1])
    /\ last.outputs # <<>>

----------------------------------------------------------------------------
(* Filters and pipelines *)

\* number of positions of seq that hold x
CountIn(seq, x) == Cardinality({k \in 1..Len(seq) : seq[k] = x})

\* kept and removed together hold each item as often as items does
Partitions(items, result) ==
    /\ Len(result.kept) + Len(result.removed) = Len(items)
    /\ \A x \in SeqToSet(items) \cup SeqToSet(result.kept) \cup SeqToSet(result.removed) :
           CountIn(result.kept, x) + CountIn(result.removed, x) = CountIn(items, x)

\* the input of stage k of the last pipeline run
RECURSIVE StageInput(_)
StageInput(k) ==
    IF k = 1 THEN last.items
    ELSE apply(last.filters[k - 1], StageInput(k - 1)).kept

\* C23: every filter, primitive or combinator, places each input item in exactly
\* one of kept and removed, and loses or duplicates none
C23_ApplyPartitionsInput ==
    last.kind = "pipeline" =>
        \A k \in 1..Len(last.filters) :
            /\ Partitions(StageInput(k), apply(last.filters[k], StageInput(k)))
            /\ SeqToSet(apply(last.filters[k], StageInput(k)).kept)
                   \cap SeqToSet(apply(last.filters[k], StageInput(k)).removed) = {}

C23_Witness ==
    /\ last.kind = "pipeline"
    /\ \E k \in 1..Len(last.filters) :
           /\ last.filters[k].name \in {"union", "intersection"}
           /\ apply(last.filters[k], StageInput(k)).kept # <<>>
           /\ apply(last.filters[k], StageInput(k)).removed # <<>>
    /\ \E k \in 1..Len(last.filters) :
           /\ last.filters[k].name = "volume-threshold"
           /\ apply(last.filters[k], StageInput(k)).removed # <<>>

\* the constituents of combinator f that, applied alone to <<item>>, keep it
KeptAlone(f, item) ==
    {j \in 1..Len(f.filters) : apply(f.filters[j], <<item>>).kept = <<item>>}

\* C24: a Union keeps an item iff at least one constituent filter applied alone to
\* the singleton list of that item keeps it; an Intersection iff every constituent does
C24_UnionSomeIntersectionEvery ==
    last.kind = "pipeline" =>
        \A k \in 1..Len(last.filters) :
            LET f == last.filters[k]
                input == StageInput(k)
                kept == SeqToSet(apply(f, input).kept)
            IN \A i \in 1..Len(input) :
                   /\ f.name = "union" =>
                          (input[i] \in kept <=> KeptAlone(f, input[i]) # {})
                   /\ f.name = "intersection" =>
                          (input[i] \in kept <=> KeptAlone(f, input[i]) = 1..Len(f.filters))

C24_Witness ==
    /\ last.kind = "pipeline"
    /\ Len(last.filters) = 2
    /\ last.filters[1].name = "union"
    /\ last.filters[2].name = "intersection"
    /\ \E i \in 1..Len(last.items) :
           LET item == last.items[i]
           IN /\ Cardinality(KeptAlone(last.filters[1], item)) = 1
              /\ Len(last.filters[1].filters) = 2
              /\ item \in SeqToSet(StageInput(2))
              /\ Cardinality(KeptAlone(last.filters[2], item)) = 1
              /\ Len(last.filters[2].filters) = 2
              /\ item \notin SeqToSet(last.result.output)

\* C25: in every pipeline result each recorded stage has keptCount + removedCount =
\* inputCount, and each stage's keptCount is the next stage's inputCount
C25_StageCountsChain ==
    last.kind = "pipeline" =>
        LET stats == last.result.stats
        IN /\ Len(stats) = Len(last.filters)
           /\ \A k \in 1..Len(stats) :
                  stats[k].keptCount + stats[k].removedCount = stats[k].inputCount
           /\ \A k \in 1..(Len(stats) - 1) :
                  stats[k].keptCount = stats[k + 1].inputCount

C25_Witness ==
    /\ last.kind = "pipeline"
    /\ Len(last.result.stats) = 2
    /\ last.result.stats[1].removedCount > 0
    /\ last.result.stats[1].keptCount > 0
    /\ last.result.stats[2].removedCount > 0

\* the removed items of stages 1..k of the last pipeline run, in stage order
RECURSIVE RemovedUpTo(_)
RemovedUpTo(k) ==
    IF k = 0 THEN <<>>
    ELSE RemovedUpTo(k - 1) \o apply(last.filters[k], StageInput(k)).removed

\* C26: runPipeline applies the filters left to right, each stage on the previous
\* stage's kept list; the output is the last stage's kept list, removed is the
\* accumulation of every stage's removed items, and every input item ends in
\* exactly one of output and removed
C26_FoldLeftToRight ==
    last.kind = "pipeline" =>
        LET n == Len(last.filters)
        IN /\ \A k \in 1..n :
                  /\ last.result.stats[k].inputCount = Len(StageInput(k))
                  /\ last.result.stats[k].keptCount = Len(StageInput(k + 1))
           /\ last.result.output = StageInput(n + 1)
           /\ last.result.removed = RemovedUpTo(n)
           /\ Partitions(last.items, [kept |-> last.result.output, removed |-> last.result.removed])
           /\ SeqToSet(last.result.output) \cap SeqToSet(last.result.removed) = {}

C26_Witness ==
    /\ last.kind = "pipeline"
    /\ Len(last.filters) = 2
    /\ apply(last.filters[1], StageInput(1)).removed # <<>>
    /\ apply(last.filters[2], StageInput(2)).removed # <<>>
    /\ last.result.output # <<>>
    /\ Len(last.result.removed) = 2

\* C27: a condition passes the admin-submission inclusion filter iff its category
\* is not crypto or its question matches the always-include allowlist, as the
\* deprecated shouldIncludeCondition decides; a crypto condition on the allowlist
\* is still included
C27_CryptoOnAllowlistIncluded ==
    (last.kind = "pipeline" /\ last.filters = API_CONDITION_FILTERS) =>
        \A i \in 1..Len(last.items) :
            LET condition == last.items[i]
                included == condition \in SeqToSet(last.result.output)
            IN /\ condition.kind = "condition" =>
                      /\ included <=> (condition.categorySlug # "crypto"
                                         \/ matchesAlwaysIncludePatterns(condition.question))
                      /\ included <=> shouldIncludeCondition(condition)
                      /\ ~included <=> condition \in SeqToSet(last.result.removed)

C27_Witness ==
    /\ last.kind = "pipeline"
    /\ last.filters = API_CONDITION_FILTERS
    /\ Condition("crypto", FedQuestion) \in SeqToSet(last.result.output)
    /\ Condition("crypto", PlainQuestion) \in SeqToSet(last.result.removed)

----------------------------------------------------------------------------
(* Grouping *)

\* C28: a group left with exactly one surviving member after inclusion filtering is
\* emitted as an ungrouped record and not as a group: the record has no group
\* title, and its category and short name are those of its enrichment
C28_SingletonGroupUngrouped ==
    last.kind = "grouped" =>
        /\ \A k \in 1..Len(last.output.groups) :
               Len(last.output.groups[k].conditions) # 1
        /\ \A k \in 1..Len(last.output.newGroups) :
               LET market == last.output.newGroups[k].markets[1]
                   enrichment == EnrichmentOf(market, last.enrichment)
               IN Len(last.output.newGroups[k].markets) = 1 =>
                      \E j \in 1..Len(last.output.ungroupedConditions) :
                          LET c == last.output.ungroupedConditions[j]
                          IN /\ c.conditionHash = market.conditionId
                             /\ c.groupTitle = Null
                             /\ enrichment # NoEnrichment =>
                                    /\ c.categorySlug = enrichment.category
                                    /\ c.shortName = enrichment.shortName

----------------------------------------------------------------------------
(* Fetch with retry *)

\* C29: fetchWithRetry issues a further attempt only when the previous attempt ended
\* in a 5xx response or a thrown transport error and the attempts are not exhausted;
\* a 4xx response is returned to the caller at once and is never retried
C29_RetryOnlyOn5xxOrError ==
    [][/\ http'.attempt > http.attempt =>
              /\ http.phase = "attempting"
              /\ http'.phase = "attempting"
              /\ http.attempt < maxRetries
              /\ http'.attempt = http.attempt + 1
              /\ http'.threw \/ IsServerError(http'.status)
       /\ (http.phase = "attempting" /\ ~http'.threw /\ http'.status \in 400..499) =>
              /\ http'.phase = "returned"
              /\ http'.attempt = http.attempt]_vars

\* a 5xx response and a transport error were retried, then a 4xx response came back
C29_Witness ==
    /\ http.phase = "returned"
    /\ http.status = 404
    /\ http.attempt = 2

\* C30: when every attempt of a batch's LLM request ended in a 5xx response or a
\* transport error, the batch call fails: the error is counted, the cache is left
\* alone and every record of the batch without a result takes the fallback
C30_ExhaustionFailsBatch ==
    [][(pc = "awaiting" /\ Exhausted(http)) =>
           /\ last'.kind = "throw"
           /\ last'.exhausted
           /\ errors' = errors + 1
           /\ usedFallback'
           /\ enrichmentCache' = enrichmentCache
           /\ \A k \in 1..Len(CurrentBatch) :
                  LET market == CurrentBatch[k]
                  IN ~MapHas(results, market.conditionId) =>
                         /\ MapHas(results', market.conditionId)
                         /\ results'[market.conditionId] = StatedFallback(market)]_vars

\* the first of two batches failed by exhaustion and its records hold the fallback
C30_Witness ==
    /\ last.kind = "throw"
    /\ last.exhausted
    /\ errors = 1
    /\ usedFallback
    /\ Len(markets) > LLM_BATCH_SIZE
    /\ Len(last.batch) = LLM_BATCH_SIZE
    /\ \A k \in 1..Len(last.batch) :
           /\ ~MapHas(last.before, last.batch[k].conditionId)
           /\ results[last.batch[k].conditionId] = StatedFallback(last.batch[k])

----------------------------------------------------------------------------
(* Fallbacks and the cache *)

\* the ids named in the LLM requests of the current call
RequestedIds == UNION {SeqToSet(llmLog[r].ids) : r \in 1..Len(llmLog)}

\* the ids of the four bucket lists of the current call
BucketIds ==
    UNION {{b[j].conditionId : j \in 1..Len(b)} :
              b \in {fullyDeterministic, needsCategoryOnly, needsShortNameOnly, needsBoth}}

\* C39: a fallback is written to the result map only, never to the cache: after a
\* batch, its records without a parsed tuple are not in the cache; and a record
\* that is not in the cache is classified into a bucket by the call, not served
\* from the cache, and has been dispatched when the call returns
C39_FallbackNotCached ==
    /\ last.kind \in {"ok", "throw"} =>
           \A k \in 1..Len(last.batch) :
               last.batch[k].conditionId \notin IdsOf(last.outputs) =>
                   ~MapHas(enrichmentCache, last.batch[k].conditionId)
    /\ pc \in {"partitioned", "dispatch", "awaiting", "returned"} =>
           \A k \in 1..Len(markets) :
               LET id == markets[k].conditionId
               IN ~MapHas(enrichmentCache, id) =>
                      /\ ~MapHas(hits, id)
                      /\ id \in BucketIds
                      /\ pc = "returned" => id \in RequestedIds

\* a second call: a later record of the list is served from the cache the first call
\* filled, an earlier one, left with a fallback by the first call, is dispatched again
C39_Witness ==
    /\ calls = 2
    /\ pc = "returned"
    /\ \E i \in 1..Len(markets), j \in 1..Len(markets) :
           /\ i < j
           /\ MapHas(hits, markets[j].conditionId)
           /\ markets[i].conditionId \in RequestedIds
           /\ ~MapHas(enrichmentCache, markets[i].conditionId)
           /\ results[markets[i].conditionId] = StatedFallback(markets[i])

----------------------------------------------------------------------------
(* Re-running *)

\* C35: a second run on the same list, with the collaborator answering as before and
\* the cache filled by the first run, returns the enrichment of the first run, from
\* which groupMarkets builds the output document
C35_RerunIdentical ==
    (runLog.on /\ calls = 2 /\ pc = "returned") =>
        /\ markets = runLog.first.markets
        /\ results = runLog.first.results

\* the second run repeats the first when each of its requests was a request of the first
RerunIdenticalOnSameRequests ==
    (runLog.on /\ calls = 2 /\ pc = "returned"
       /\ DOMAIN runLog.answers \subseteq DOMAIN runLog.first.answers) =>
        results = runLog.first.results

----------------------------------------------------------------------------
(* Submission to the admin API *)

Conflict(outcome) == ~outcome.threw /\ outcome.status = 409

Created(outcome) == ~outcome.threw /\ outcome.status >= 200 /\ outcome.status <= 299

Failed(outcome) == ~Conflict(outcome) /\ ~Created(outcome)

\* the calls of one type in the log
LogOf(type) == {i \in 1..Len(submission.log) : submission.log[i].type = type}

\* C31: a submission answered 409 is reported as success with the note, and is counted
\* as skipped: the skipped counters count exactly the 409 answers, the created
\* counters the 2xx answers and the failed counters the rest
C31_ConflictCountedSkipped ==
    /\ \A i \in 1..Len(submission.log) :
           Conflict(submission.log[i].outcome) =>
               /\ submission.log[i].result.success
               /\ submission.log[i].result.error = AlreadyExists
    /\ submission.counts.groupsSkipped =
           Cardinality({i \in LogOf("group") : Conflict(submission.log[i].outcome)})
    /\ submission.counts.conditionsSkipped =
           Cardinality({i \in LogOf("condition") : Conflict(submission.log[i].outcome)})
    /\ submission.counts.groupsCreated =
           Cardinality({i \in LogOf("group") : Created(submission.log[i].outcome)})
    /\ submission.counts.conditionsCreated =
           Cardinality({i \in LogOf("condition") : Created(submission.log[i].outcome)})
    /\ submission.counts.groupsFailed =
           Cardinality({i \in LogOf("group") : Failed(submission.log[i].outcome)})
    /\ submission.counts.conditionsFailed =
           Cardinality({i \in LogOf("condition") : Failed(submission.log[i].outcome)})

\* a finished submission in which a group and a condition were answered 409
C31_Witness ==
    /\ submission.phase = "done"
    /\ \E i \in LogOf("group") : Conflict(submission.log[i].outcome)
    /\ \E i \in LogOf("condition") : Conflict(submission.log[i].outcome)
    /\ submission.counts.groupsSkipped = 1
    /\ submission.counts.conditionsSkipped >= 1
    /\ submission.counts.conditionsCreated >= 1

\* C32: between two consecutive submission calls of submitToAPI at least
\* SUBMISSION_DELAY_MS elapses
C32_DelayBetweenCalls ==
    \A i \in 2..Len(submission.log) : submission.log[i].gap >= SUBMISSION_DELAY_MS

\* a group call, a call for one of its conditions and a call for an ungrouped
\* condition, one made when the timer fired and one later
C32_Witness ==
    /\ Len(submission.log) >= 3
    /\ submission.log[1].type = "group"
    /\ submission.log[2].type = "condition"
    /\ submission.log[2].gap = SUBMISSION_DELAY_MS
    /\ submission.log[3].gap > SUBMISSION_DELAY_MS

\* C38: a failed submission does not stop the run: when submitToAPI ends, every
\* group that passes API_GROUP_FILTERS, each of its conditions that pass
\* API_CONDITION_FILTERS and every such ungrouped condition has been submitted, in
\* order, the failures are counted, and main does not exit
C38_FailureOnlyCounted ==
    /\ submission.phase = "done" =>
           /\ Len(submission.log) = Len(Plan(cli.data))
           /\ \A i \in 1..Len(submission.log) :
                  /\ submission.log[i].type = Plan(cli.data)[i].type
                  /\ submission.log[i].item = Plan(cli.data)[i].item
           /\ cli.phase = "returned"
    /\ submission.phase \in {"call", "delay"} => cli.phase = "submitting"
    /\ submission.counts.groupsFailed + submission.counts.conditionsFailed =
           Cardinality({i \in 1..Len(submission.log) : ~submission.log[i].result.success})

\* the group's submission failed with a thrown error, its condition and the ungrouped
\* condition were submitted after it, one of them answered with a failing status
C38_Witness ==
    /\ submission.phase = "done"
    /\ Len(submission.log) >= 3
    /\ submission.log[1].type = "group"
    /\ submission.log[1].outcome.threw
    /\ submission.log[2].type = "condition"
    /\ ~submission.log[2].outcome.threw
    /\ ~submission.log[2].result.success
    /\ submission.log[3].result.success
    /\ submission.counts.groupsFailed = 1

----------------------------------------------------------------------------
(* main of the generate script *)

KeyMissing == cli.rawPrivateKey \in {Null, ""}

KeyInvalid == ~KeyMissing /\ cli.rawPrivateKey \notin {ValidKey, "0x" \o ValidKey}

NoWorkDone ==
    /\ cli.fetches = 0
    /\ ~cli.grouped
    /\ ~cli.exported
    /\ submission = NoSubmission

\* C36 as stated: with the key missing the process exits at startup, before any
\* market is fetched, any LLM request is issued or any submission is made
C36_MissingCredentialsFatal ==
    (cli.phase # "none" /\ ~cli.help /\ KeyMissing) =>
        /\ cli.phase = "exited"
        /\ cli.exitCode = 1
        /\ NoWorkDone

\* C36: an ADMIN_PRIVATE_KEY that is set and is not 64 hex digits is fatal: the process
\* exits with code 1 at startup with no market fetched, no LLM request issued and no
\* submission made; a missing key is not an error: the run goes on to fetch, and it
\* makes no submission
C36_InvalidKeyFatal ==
    /\ (cli.phase # "none" /\ ~cli.help /\ KeyInvalid) =>
           /\ cli.phase = "exited"
           /\ cli.exitCode = 1
           /\ NoWorkDone
    /\ (cli.phase # "none" /\ ~cli.help /\ KeyMissing) =>
           /\ submission = NoSubmission
           /\ cli.phase = "exited" => cli.fetches > 0

\* the run was started with a key of the wrong form and has exited
C36_Witness ==
    /\ cli.phase = "exited"
    /\ ~cli.help
    /\ cli.rawPrivateKey = "abc123"
    /\ cli.exitCode = 1

\* a run without a key that has fetched, grouped and exported, and returned
C36_MissingKeyRuns ==
    /\ cli.phase = "returned"
    /\ KeyMissing
    /\ ~cli.dryRun
    /\ cli.exported

\* C37: with --dry-run no submission is sent: the script prints what would be
\* submitted and returns
C37_DryRunSubmitsNothing ==
    /\ (cli.phase # "none" /\ cli.dryRun) => submission = NoSubmission
    /\ (cli.phase = "returned" /\ cli.dryRun) => cli.printed

\* a dry run with a valid key and a document that has something to submit
C37_Witness ==
    /\ cli.phase = "returned"
    /\ cli.dryRun
    /\ cli.printed
    /\ cli.privateKey # Null
    /\ Plan(cli.data) # <<>>

----------------------------------------------------------------------------
(* The market source loop *)

\* the page just read ended the loop for one of the three reasons
PageStops ==
    \/ Len(paging'.markets) < PAGE_SIZE
    \/ \E k \in 1..Len(paging'.markets) : paging'.markets[k].endDate >= WindowEnd
    \/ paging'.newMarketsCount = 0

\* a page that is short, reaches the end of the window or adds nothing ends the loop
C33_StopRule ==
    [][(paging.phase = "loop" /\ paging'.pageCount = paging.pageCount + 1
          /\ paging'.phase # "thrown" /\ PageStops) => paging'.phase = "filter"]_vars

\* C33: the loop stops as soon as a page is short, reaches the end of the window or
\* adds no new identifier, and so the call ends for every finite source
C33_StopsAndTerminates ==
    C33_StopRule /\ <>(paging.phase \in {"done", "thrown"})

\* the loop was ended by a full page inside the window that added nothing
C33_Witness ==
    /\ paging.phase = "done"
    /\ paging.pageCount >= 2
    /\ Len(paging.markets) = PAGE_SIZE
    /\ \A k \in 1..Len(paging.markets) : paging.markets[k].endDate < WindowEnd
    /\ paging.newMarketsCount = 0

\* C34: the accumulated list holds each identifier at most once
C34_AccumulatedIdsDistinct ==
    \A i \in 1..Len(paging.allMarkets), j \in 1..Len(paging.allMarkets) :
        i # j => paging.allMarkets[i].conditionId # paging.allMarkets[j].conditionId

\* a later page repeated a market of an earlier one and brought a new one
C34_Witness ==
    /\ paging.pageCount >= 2
    /\ paging.newMarketsCount > 0
    /\ \E k \in 1..Len(paging.markets), i \in 1..Len(paging.allMarkets) :
           /\ i + paging.newMarketsCount <= Len(paging.allMarkets)
           /\ paging.allMarkets[i] = paging.markets[k]

InWindow(m) == m.endDate >= WindowStart /\ m.endDate < WindowEnd

\* C40: when the loop has ended, every market of the source that ends inside the
\* window is in the accumulated list
C40_NoInWindowMarketSkipped ==
    paging.phase = "done" =>
        \A m \in paging.source :
            InWindow(m) => \E i \in 1..Len(paging.allMarkets) : paging.allMarkets[i] = m

\* no market is skipped when fewer markets than a page end at each time
NoneSkippedWithoutFullTies ==
    (/\ paging.phase = "done"
     /\ \A m \in paging.source :
            Cardinality({x \in paging.source : x.endDate = m.endDate}) < PAGE_SIZE)
    => \A m \in paging.source :
           InWindow(m) => \E i \in 1..Len(paging.allMarkets) : paging.allMarkets[i] = m

====
